---- MODULE Spec2Model ----
(***************************************************************************)
(* A model of the EPT engine of SimpleVisor (shvvmxept.c): the identity    *)
(* map builder, the EPT-violation handler and the tear-down of the table   *)
(* tree, over a memory of 4 KiB tables handed out by the contiguous        *)
(* allocator.                                                              *)
(*                                                                         *)
(* 64-bit quantities do not fit TLC's integers.  A physical address is the *)
(* record [hi, mid, off] of its bits 63:39, 38:12 and 11:0, and a page     *)
(* frame number is the record [hi, mid] of the bits above bit 11, so that  *)
(* shifts, truncation to a bit-field and carries are computed on limbs.    *)
(***************************************************************************)
EXTENDS Integers, Sequences, FiniteSets, TLC

\* ------------------------------------------------------------------ bounds
\* The model permits this many EPT violations after a successful build.
MaxViolations == 2

\* ------------------------------------------------------- program constants
PAGE_SHIFT == 12
IndexBits == 9
VMX_EPT_PAGE_WALK_LENGTH == 4
WriteBack == 6
NULL == 0

Pow2(n) == 2 ^ n
EntriesPerTable == Pow2(IndexBits)
OffLimit == Pow2(PAGE_SHIFT)
MidLimit == Pow2(3 * IndexBits)
HiLimit == Pow2(64 - PAGE_SHIFT - 3 * IndexBits)
PAGE_SIZE == [hi |-> 0, mid |-> 1, off |-> 0]

STATUS_SUCCESS == "STATUS_SUCCESS"
STATUS_HV_NO_RESOURCES == "STATUS_HV_NO_RESOURCES"

\* ------------------------------------------------------ 64-bit arithmetic
U64(h, m, o) == [hi |-> h, mid |-> m, off |-> o]
Zero64 == U64(0, 0, 0)

\* a + b modulo 2^64.
Add64(a, b) ==
    LET o == a.off + b.off
        m == a.mid + b.mid + (o \div OffLimit)
        h == a.hi + b.hi + (m \div MidLimit)
    IN  U64(h % HiLimit, m % MidLimit, o % OffLimit)

\* a - 1 modulo 2^64.
Dec64(a) ==
    IF a.off > 0 THEN U64(a.hi, a.mid, a.off - 1)
    ELSE IF a.mid > 0 THEN U64(a.hi, a.mid - 1, OffLimit - 1)
    ELSE IF a.hi > 0 THEN U64(a.hi - 1, MidLimit - 1, OffLimit - 1)
    ELSE U64(HiLimit - 1, MidLimit - 1, OffLimit - 1)

\* PHYSICAL_ADDRESS.QuadPart is a LONGLONG: the comparison is signed.
Negative64(a) == a.hi >= HiLimit \div 2
Less64(a, b) ==
    IF Negative64(a) # Negative64(b) THEN Negative64(a)
    ELSE \/ a.hi < b.hi
         \/ a.hi = b.hi /\ a.mid < b.mid
         \/ a.hi = b.hi /\ a.mid = b.mid /\ a.off < b.off

\* --------------------------------------------------------- address fields
\* VMX_EPT_ADDRESS: the bit-fields of a guest-physical address.
HPA(a) == a.off
PTE(a) == a.mid % EntriesPerTable
PDE(a) == (a.mid \div EntriesPerTable) % EntriesPerTable
\* The mutant of PDPTE that starts one bit too low, at bit 29.
PdpteFromBit29(a) ==
    (a.mid \div Pow2(2 * IndexBits - 1)) % EntriesPerTable
PDPTE(a) == (a.mid \div (EntriesPerTable * EntriesPerTable)) % EntriesPerTable
PML4E(a) == a.hi % EntriesPerTable

\* The second structure of the union: the five fields of the address and
\* the sixteen bits above them.
VMX_EPT_ADDRESS(a) ==
    [HPA |-> HPA(a), PTE |-> PTE(a), PDE |-> PDE(a), PDPTE |-> PDPTE(a),
     PML4E |-> PML4E(a), reserved0 |-> a.hi \div EntriesPerTable]
\* The address whose fields are f, with zero above bit 47.
Reassemble(f) ==
    U64(f.PML4E,
        (f.PDPTE * EntriesPerTable + f.PDE) * EntriesPerTable + f.PTE,
        f.HPA)

\* The switch of ShvVmxEptPopulateIdentityTable: the index used at a level.
LevelIndex(a, level) ==
    CASE level = 4 -> PML4E(a)
      [] level = 3 -> PDPTE(a)
      [] level = 2 -> PDE(a)
      [] level = 1 -> PTE(a)

SHV_PHYS_TO_PFN(pa) == [hi |-> pa.hi, mid |-> pa.mid]
SHV_PFN_TO_PHYS(pfn) == U64(pfn.hi % HiLimit, pfn.mid, 0)

\* Assignment to a bit-field PFN : bits keeps the low bits of the value.
TruncPfn(pfn, bits) ==
    [hi |-> pfn.hi % Pow2(bits - 3 * IndexBits), mid |-> pfn.mid]
EntryPfnBits == 41
PtePfnBits == 40
ZeroPfn == [hi |-> 0, mid |-> 0]

\* ------------------------------------------------------------ EPT entries
\* An entry is the record of the bit-fields the code reads or writes: R, W,
\* X (bits 0-2), MT (bits 5:3 of a VMX_EPT_PTE), P (bit 7 of a VMX_EPT_PDPTE
\* or VMX_EPT_PDE) and PFN (from bit 12).  No other bit of a zeroed table is
\* ever written, so QuadPart is zero exactly when these fields are.
ZeroEntry == [R |-> 0, W |-> 0, X |-> 0, MT |-> 0, P |-> 0, PFN |-> ZeroPfn]
QuadPartIsZero(e) == e = ZeroEntry

\* A table holds 512 entries; the model stores the non-zero ones.
ZeroTable == [i \in {} |-> ZeroEntry]
EntryAt(t, i) == IF i \in DOMAIN t THEN t[i] ELSE ZeroEntry
StoreEntry(t, i, e) ==
    IF QuadPartIsZero(e)
    THEN [j \in DOMAIN t \ {i} |-> t[j]]
    ELSE [j \in DOMAIN t \cup {i} |-> IF j = i THEN e ELSE t[j]]

\* What a page holds when the allocator returns it: not zero.
StaleEntry == [R |-> 1, W |-> 0, X |-> 1, MT |-> 0, P |-> 0,
               PFN |-> [hi |-> 0, mid |-> 1]]
StaleTable == [i \in {0, EntriesPerTable - 1} |-> StaleEntry]

\* ----------------------------------------------------------------- memory
\* The run of a routine threads a record s through its steps:
\*   mem    the allocated pages, each a table, by virtual address;
\*   fail   which allocation attempt from now on returns NULL (0: none);
\*   allocs the pages allocated, freed the pages freed, in order;
\*   steps  what ShvVmxEptCleanup did, in order: <<"read", table, i>> for
\*          entry i of a table examined, <<"free", page, 0>> for a page freed;
\*   nulls  the allocation attempts that returned NULL;
\*   mapped the addresses whose walk returned STATUS_SUCCESS.
TableAt(mem, va) == IF va \in DOMAIN mem THEN mem[va] ELSE ZeroTable
ReadEntry(s, table, i) == EntryAt(TableAt(s.mem, table), i)
WriteEntry(s, table, i, e) ==
    IF table \in DOMAIN s.mem
    THEN [s EXCEPT !.mem[table] = StoreEntry(@, i, e)]
    ELSE s

\* Pages come from a pool of physically contiguous frames; the kernel maps
\* page number n of the pool at a fixed virtual address, written n here.
PoolBaseFrame == 65536
MmGetPhysicalAddress(va) == U64(0, PoolBaseFrame + va, 0)
MmGetVirtualForPhysical(pa) ==
    IF pa.hi = 0 /\ pa.mid > PoolBaseFrame /\ pa.off = 0
    THEN pa.mid - PoolBaseFrame
    ELSE NULL

FirstFreePage(mem) ==
    CHOOSE va \in 1..(Cardinality(DOMAIN mem) + 1) : va \notin DOMAIN mem

\* The allocator returns NULL or a fresh page whose contents are stale.
ShvUtilAllocateContiguousMemory(s) ==
    IF s.fail = 1
    THEN [s |-> [s EXCEPT !.fail = 0, !.nulls = @ + 1], va |-> NULL]
    ELSE LET va == FirstFreePage(s.mem)
         IN  [s |-> [s EXCEPT
                         !.mem = [p \in DOMAIN s.mem \cup {va} |->
                                     IF p = va THEN StaleTable ELSE s.mem[p]],
                         !.fail = IF s.fail > 1 THEN s.fail - 1 ELSE 0,
                         !.allocs = Append(@, va)],
              va |-> va]

\* The mutant of ZeroPage that leaves the page as the allocator gave it.
PageLeftStale(s, va) == s
\* __stosq(table, 0, PAGE_SIZE / sizeof(ULONG64))
ZeroPage(s, va) ==
    IF va \in DOMAIN s.mem THEN [s EXCEPT !.mem[va] = ZeroTable] ELSE s

MmFreeContiguousMemory(s, va) ==
    [s EXCEPT !.mem = [p \in DOMAIN s.mem \ {va} |-> s.mem[p]],
              !.freed = Append(@, va),
              !.steps = Append(@, <<"free", va, 0>>)]

ShvVmxEptGetVirtualFromPfn(pfn) == MmGetVirtualForPhysical(SHV_PFN_TO_PHYS(pfn))
ShvVmxEptGetPfnFromVirtual(va) == SHV_PHYS_TO_PFN(MmGetPhysicalAddress(va))

\* ------------------------------------------------------------ the walk
\* The mutant of LeafEntry that leaves the memory type unset.
LeafEntryWithoutMemoryType(e, address) ==
    [e EXCEPT !.R = 1, !.W = 1, !.X = 1,
              !.PFN = TruncPfn(SHV_PHYS_TO_PFN(address), PtePfnBits)]

\* The mutant of DirectoryEntry that stores the frame of the first pool
\* page, the PML4, in place of the frame of the new table.
DirectoryEntryOfRoot(e, next) ==
    [e EXCEPT !.R = 1, !.W = 1, !.X = 1,
              !.PFN = [hi |-> 0, mid |-> PoolBaseFrame + 1]]

\* The values ShvVmxEptPopulateIdentityTable stores.
LeafEntry(e, address) ==
    [e EXCEPT !.R = 1, !.W = 1, !.X = 1, !.MT = WriteBack,
              !.PFN = TruncPfn(SHV_PHYS_TO_PFN(address), PtePfnBits)]
DirectoryEntry(e, next) ==
    [e EXCEPT !.R = 1, !.W = 1, !.X = 1,
              !.PFN = TruncPfn(ShvVmxEptGetPfnFromVirtual(next), EntryPfnBits)]

\* if (pte->QuadPart == 0): the leaf is populated only when it is not set.
MustPopulate(pte) == QuadPartIsZero(pte)
\* The mutant of MustAllocate that allocates a table at every visit.
AlwaysAllocate(entry) == TRUE
\* if (ta.Entry->QuadPart == 0): a table is allocated only for a zero entry.
MustAllocate(entry) == QuadPartIsZero(entry)

RECURSIVE ShvVmxEptPopulateIdentityTable(_, _, _, _)
ShvVmxEptPopulateIdentityTable(s, table, level, address) ==
    LET i == LevelIndex(address, level)
        e == ReadEntry(s, table, i)
    IN  IF level = 1
        THEN [s |-> [(IF MustPopulate(e)
                      THEN WriteEntry(s, table, i, LeafEntry(e, address))
                      ELSE s)
                     EXCEPT !.mapped = @ \cup {address}],
              ret |-> STATUS_SUCCESS]
        ELSE IF MustAllocate(e)
        THEN LET a == ShvUtilAllocateContiguousMemory(s)
             IN  IF a.va = NULL
                 THEN [s |-> a.s, ret |-> STATUS_HV_NO_RESOURCES]
                 ELSE ShvVmxEptPopulateIdentityTable(
                          WriteEntry(ZeroPage(a.s, a.va), table, i,
                                     DirectoryEntry(e, a.va)),
                          a.va, level - 1, address)
        ELSE ShvVmxEptPopulateIdentityTable(
                 s, ShvVmxEptGetVirtualFromPfn(e.PFN), level - 1, address)

\* ------------------------------------------------------------ the build
\* for (address = start; address < end; address += PAGE_SIZE)
RECURSIVE PopulateRange(_, _, _, _)
\* if (ret != STATUS_SUCCESS) return ret; else the next page of the range.
NextPage(r, pml4, address, end) ==
    IF r.ret # STATUS_SUCCESS
    THEN r
    ELSE PopulateRange(r.s, pml4, Add64(address, PAGE_SIZE), end)

PopulateRange(s, pml4, address, end) ==
    IF ~Less64(address, end)
    THEN [s |-> s, ret |-> STATUS_SUCCESS]
    ELSE NextPage(ShvVmxEptPopulateIdentityTable(
                      s, pml4, VMX_EPT_PAGE_WALK_LENGTH, address),
                  pml4, address, end)

IsSentinel(range) ==
    range.BaseAddress = Zero64 /\ range.NumberOfBytes = Zero64

\* The mutant of RangeEnd that ends the range one page early.
RangeEndOnePageEarly(range) ==
    LET end == Dec64(Add64(range.BaseAddress, range.NumberOfBytes))
    IN  U64(end.hi, end.mid - 1, end.off)

\* The mutant of RangeEnd that ends the range one page late.
RangeEndOnePageLate(range) ==
    Add64(Dec64(Add64(range.BaseAddress, range.NumberOfBytes)), PAGE_SIZE)
\* end.QuadPart = start.QuadPart + ranges[i].NumberOfBytes.QuadPart - 1
RangeEnd(range) == Dec64(Add64(range.BaseAddress, range.NumberOfBytes))

RECURSIVE PopulateRanges(_, _, _, _)
\* A failed range ends the build; otherwise the next range is taken.
NextRange(r, pml4, ranges, i) ==
    IF r.ret # STATUS_SUCCESS
    THEN r
    ELSE PopulateRanges(r.s, pml4, ranges, i + 1)

PopulateRanges(s, pml4, ranges, i) ==
    IF IsSentinel(ranges[i])
    THEN [s |-> s, ret |-> STATUS_SUCCESS]
    ELSE NextRange(PopulateRange(s, pml4, ranges[i].BaseAddress,
                                 RangeEnd(ranges[i])),
                   pml4, ranges, i)

\* __readmsr(IA32_APIC_BASE_MSR) & IA32_APIC_BASE_ADDRESS_MASK: the mask
\* keeps the page-aligned base and drops the flag bits below bit 12.
ApicBase(msr) == U64(msr.hi, msr.mid, 0)

\* After the ranges: the page of the local APIC is mapped.
MapApic(r, pml4, apicMsr) ==
    IF r.ret # STATUS_SUCCESS
    THEN r
    ELSE ShvVmxEptPopulateIdentityTable(
             r.s, pml4, VMX_EPT_PAGE_WALK_LENGTH, ApicBase(apicMsr))

ShvVmxEptBuildIdentityTables(s, pml4, ranges, apicMsr) ==
    MapApic(PopulateRanges(s, pml4, ranges, 1), pml4, apicMsr)

\* ---------------------------------------------------------- the cleanup
MinOf(S) == CHOOSE x \in S : \A y \in S : x <= y
\* The mutant of IsDirectory with the test of the P bit inverted.
IsDirectoryInverted(e) == ~QuadPartIsZero(e) /\ e.P = 1
\* if (entry->QuadPart == 0 || entry->P == 1) continue;
IsDirectory(e) == ~QuadPartIsZero(e) /\ e.P # 1

\* SHV_FOR_EACH_ENTRY(table, name, type): the loop has come to entry i.
Examine(s, table, i) == [s EXCEPT !.steps = Append(@, <<"read", table, i>>)]

\* The innermost loop: free the page table of every directory PDE.
RECURSIVE CleanupPdt(_, _, _)
CleanupPdt(s, pdt, todo) ==
    IF todo = {} THEN s
    ELSE LET i == MinOf(todo)
             pde == ReadEntry(s, pdt, i)
         IN  CleanupPdt(
                 IF IsDirectory(pde)
                 THEN MmFreeContiguousMemory(
                          Examine(s, pdt, i),
                          ShvVmxEptGetVirtualFromPfn(pde.PFN))
                 ELSE Examine(s, pdt, i),
                 pdt, todo \ {i})

\* The middle loop: per directory PDPTE, free below the PD and then the PD.
RECURSIVE CleanupPdpt(_, _, _)
CleanupPdpt(s, pdpt, todo) ==
    IF todo = {} THEN s
    ELSE LET i == MinOf(todo)
             pdpte == ReadEntry(s, pdpt, i)
             pdt == ShvVmxEptGetVirtualFromPfn(pdpte.PFN)
         IN  CleanupPdpt(
                 IF IsDirectory(pdpte)
                 THEN MmFreeContiguousMemory(
                          CleanupPdt(Examine(s, pdpt, i), pdt,
                                     DOMAIN TableAt(s.mem, pdt)),
                          pdt)
                 ELSE Examine(s, pdpt, i),
                 pdpt, todo \ {i})

\* The outer loop: per non-zero PML4E, free below the PDPT and then the PDPT.
RECURSIVE CleanupPml4(_, _, _)
CleanupPml4(s, pml4, todo) ==
    IF todo = {} THEN s
    ELSE LET i == MinOf(todo)
             pml4e == ReadEntry(s, pml4, i)
             pdpt == ShvVmxEptGetVirtualFromPfn(pml4e.PFN)
         IN  CleanupPml4(
                 IF ~QuadPartIsZero(pml4e)
                 THEN MmFreeContiguousMemory(
                          CleanupPdpt(Examine(s, pml4, i), pdpt,
                                      DOMAIN TableAt(s.mem, pdpt)),
                          pdpt)
                 ELSE Examine(s, pml4, i),
                 pml4, todo \ {i})

\* The mutant of FreeTree that frees the PML4 before it walks it.
TreeFreedFromRoot(s, pml4) ==
    [CleanupPml4(MmFreeContiguousMemory(s, pml4), pml4,
                 DOMAIN TableAt(s.mem, pml4))
     EXCEPT !.mapped = {}]

\* ShvVmxEptCleanup: the record s after it and the new PML4 pointer.  With
\* the tree gone, no address is mapped.
FreeTree(s, pml4) ==
    [MmFreeContiguousMemory(
         CleanupPml4(s, pml4, DOMAIN TableAt(s.mem, pml4)), pml4)
     EXCEPT !.mapped = {}]

\* The mutant of ShvVmxEptCleanup that leaves the static pointer set.
CleanupKeepingPointer(s, pml4) ==
    IF pml4 = NULL
    THEN [s |-> s, pml4 |-> NULL]
    ELSE [s |-> FreeTree(s, pml4), pml4 |-> pml4]

\* The mutant of ShvVmxEptCleanup without the test of the static pointer.
CleanupWithoutNullTest(s, pml4) ==
    [s |-> FreeTree(s, pml4), pml4 |-> NULL]

ShvVmxEptCleanup(s, pml4) ==
    IF pml4 = NULL
    THEN [s |-> s, pml4 |-> NULL]
    ELSE [s |-> FreeTree(s, pml4), pml4 |-> NULL]

\* ---------------------------------------------------------- the handler
\* The mutant of the macro that tests bit 3 alone.
EntryMissTestingBit3(vr) == (vr \div Pow2(3)) % 2 = 0
\* The mutant of the macro that tests bits 0 to 5.
EntryMissTestingLowBits(vr) == vr % Pow2(6) = 0
\* SHV_EPT_VIOLATION_ENTRY_MISS(vr): ((vr & (7 << 3)) == 0)
SHV_EPT_VIOLATION_ENTRY_MISS(vr) == (vr \div Pow2(3)) % Pow2(3) = 0

NoAssertion == "none"
AllocationFailed == "GPA EPT Allocation Failed"
UnknownReason == "Unknown EPT Violation Reason"

\* ShvVmxEptHandleViolation: the record s after it, the status of the walk
\* ("none" when no walk ran), the assertion whose condition was false, and
\* the VMX instructions executed, in order.
ShvVmxEptHandleViolation(s, pml4, ExitReason, gpa) ==
    IF SHV_EPT_VIOLATION_ENTRY_MISS(ExitReason)
    THEN LET r == ShvVmxEptPopulateIdentityTable(
                      s, pml4, VMX_EPT_PAGE_WALK_LENGTH, gpa)
         IN  [s |-> r.s, ret |-> r.ret,
              assertion |-> IF r.ret = STATUS_SUCCESS
                            THEN NoAssertion ELSE AllocationFailed,
              vmx |-> <<"VMREAD">>]
    ELSE [s |-> s, ret |-> "none", assertion |-> UnknownReason,
          vmx |-> <<"VMREAD">>]

\* ShvVmxEptInitialize: the record s after it, the PML4 pointer, the EPTP
\* and the status returned.
\* The mutant of EptpOf that stores the page-walk length itself.
EptpWithWalkLength(pml4) ==
    [PFN |-> TruncPfn(ShvVmxEptGetPfnFromVirtual(pml4), 52),
     PW |-> VMX_EPT_PAGE_WALK_LENGTH, MT |-> WriteBack, ADE |-> 0]
EptpOf(pml4) ==
    [PFN |-> TruncPfn(ShvVmxEptGetPfnFromVirtual(pml4), 52),
     PW |-> VMX_EPT_PAGE_WALK_LENGTH - 1, MT |-> WriteBack, ADE |-> 0]
ZeroEptp == [PFN |-> ZeroPfn, PW |-> 0, MT |-> 0, ADE |-> 0]

\* if (ret != STATUS_SUCCESS) { ShvVmxEptCleanup(); return ret; }
AfterCleanup(c, eptp, ret) ==
    [s |-> c.s, pml4 |-> c.pml4, eptp |-> eptp, ret |-> ret]

\* The build has returned b for the PML4 at va.
AfterBuild(b, va, eptp) ==
    IF b.ret # STATUS_SUCCESS
    THEN AfterCleanup(ShvVmxEptCleanup(b.s, va), eptp, b.ret)
    ELSE [s |-> b.s, pml4 |-> va, eptp |-> EptpOf(va),
          ret |-> STATUS_SUCCESS]

\* The allocation of the PML4 has returned a.
AfterAllocation(a, eptp, ranges, apicMsr) ==
    IF a.va = NULL
    THEN [s |-> a.s, pml4 |-> NULL, eptp |-> eptp,
          ret |-> STATUS_HV_NO_RESOURCES]
    ELSE AfterBuild(ShvVmxEptBuildIdentityTables(
                        ZeroPage(a.s, a.va), a.va, ranges, apicMsr),
                    a.va, eptp)

ShvVmxEptInitialize(s, eptp, ranges, apicMsr) ==
    AfterAllocation(ShvUtilAllocateContiguousMemory(s), eptp, ranges, apicMsr)

\* ------------------------------------------------------------ the inputs
Range(base, bytes) == [BaseAddress |-> base, NumberOfBytes |-> bytes]
Sentinel == Range(Zero64, Zero64)

DefaultApicMsr == U64(0, 1043968, 2304)
RelocatedApicMsr == U64(0, 2, 2304)

\* The machines: what MmGetPhysicalMemoryRanges returns (page-aligned runs,
\* in order, ended by the zero entry) and the value of IA32_APIC_BASE, which
\* is 0xFEE00900 (the default base, enabled, on the boot processor) or a
\* base relocated into the first range.  The last machine has one page at
\* 0x1000 and one page at 0x4000.
Machines ==
    { [ranges |-> <<Sentinel>>, apic |-> DefaultApicMsr],
      [ranges |-> <<Range(U64(0, 1, 0), U64(0, 2, 0)), Sentinel>>,
       apic |-> RelocatedApicMsr],
      [ranges |-> <<Range(U64(0, 1, 0), U64(0, 2, 0)),
                    Range(U64(0, 4, 0), U64(0, 5, 0)), Sentinel>>,
       apic |-> DefaultApicMsr],
      [ranges |-> <<Range(U64(0, 0, 0), U64(0, 1, 0)),
                    Range(U64(0, 511, 0), U64(0, 2, 0)), Sentinel>>,
       apic |-> DefaultApicMsr],
      [ranges |-> <<Range(U64(0, 1, 0), U64(0, 1, 0)),
                    Range(U64(0, 4, 0), U64(0, 1, 0)), Sentinel>>,
       apic |-> DefaultApicMsr] }

\* Faulting guest-physical addresses: 0x7000, 0x7123 (the same page),
\* 0x201000 (another page directory entry), 2^39 (another PML4E) and
\* 2^48 + 0x7000 (the indices of 0x7000).
GuestAddresses ==
    { U64(0, 7, 0), U64(0, 7, 291), U64(0, 513, 0), U64(1, 0, 0),
      U64(512, 7, 0) }

\* Values of VpState->ExitReason: 0 and 1 have bits 3-5 clear, 9 has bit 3
\* set and 48 has bits 4 and 5 set.
ExitReasons == {0, 1, 9, 48}

\* An allocation attempt of a call that may fail (0: none does).  A walk
\* allocates at most three tables; a build allocates the PML4 and the
\* tables of its ranges and of the APIC page.
WalkFailPoints == 0..(VMX_EPT_PAGE_WALK_LENGTH - 1)
MaxBuildAllocations == 8
BuildFailPoints == 0..MaxBuildAllocations

\* ------------------------------------------------------- the probes
\* A 32-bit or 64-bit register is the set of the positions of its one bits:
\* x & y is the intersection, x | y the union, and a bit test membership.
Reverse(s) == [i \in 1..Len(s) |-> s[Len(s) + 1 - i]]
\* A four-character constant such as 'uneG' has its first character in the
\* most significant byte: as register text, lowest byte first, it reads
\* backwards.
MultiChar(literal) == Reverse(literal)

\* __cpuid(cpu_info, 0): cpu_info[1..3] are EBX, ECX and EDX.
CpuidLeaf0(h) == [i \in 1..3 |-> <<h.vendor.ebx, h.vendor.ecx, h.vendor.edx>>[i]]
\* __cpuid(cpu_info, 1): cpu_info[2] is ECX, the feature bits.
CpuidLeaf1(h) == [i \in {2} |-> h.features]

\* The bits the probes test.
CPUID_VMX_BIT == {5}
CPUID_HYPERVISOR_BIT == {31}
IA32_FEATURE_CONTROL_MSR_LOCK == {0}
IA32_FEATURE_CONTROL_MSR_ENABLE_VMXON_OUTSIDE_SMX == {2}
SecondaryControlsAllowed == {32 + 31}
EptAllowed == {32 + 1}

\* The mutant of ShvVmxProbe that skips the test of the lock bit.
ProbeIgnoringLock(h) ==
    /\ ~( /\ CpuidLeaf0(h)[1] # MultiChar(<<"u", "n", "e", "G">>)
          /\ CpuidLeaf0(h)[2] # MultiChar(<<"I", "e", "n", "i">>)
          /\ CpuidLeaf0(h)[3] # MultiChar(<<"l", "e", "t", "n">>) )
    /\ ~(CpuidLeaf1(h)[2] \cap {5} = {})
    /\ h.featureControl
           \cap IA32_FEATURE_CONTROL_MSR_ENABLE_VMXON_OUTSIDE_SMX # {}

\* ShvVmxProbe: each test that fails returns FALSE.
\*   cpu_info[1] != 'uneG' && cpu_info[2] != 'Ieni' && cpu_info[3] != 'letn'
\*   (cpu_info[2] & 0x20) == FALSE
\*   !(featureControl & IA32_FEATURE_CONTROL_MSR_LOCK)
\*   !(featureControl & IA32_FEATURE_CONTROL_MSR_ENABLE_VMXON_OUTSIDE_SMX)
ShvVmxProbe(h) ==
    /\ ~( /\ CpuidLeaf0(h)[1] # MultiChar(<<"u", "n", "e", "G">>)
          /\ CpuidLeaf0(h)[2] # MultiChar(<<"I", "e", "n", "i">>)
          /\ CpuidLeaf0(h)[3] # MultiChar(<<"l", "e", "t", "n">>) )
    /\ ~(CpuidLeaf1(h)[2] \cap {5} = {})
    /\ h.featureControl \cap IA32_FEATURE_CONTROL_MSR_LOCK # {}
    /\ h.featureControl
           \cap IA32_FEATURE_CONTROL_MSR_ENABLE_VMXON_OUTSIDE_SMX # {}

\* ShvVmxEptProbe: the test of bit 32 + 31 of IA32_VMX_PROCBASED_CTLS has an
\* empty body (its return is commented out); bit 32 + 1 of
\* IA32_VMX_PROCBASED_CTLS2 decides.
ShvVmxEptProbe(h) == ~((32 + 1) \notin h.procbasedCtls2)

\* The driver entry loads only when both probes return TRUE.
ProbeSupported(h) == ShvVmxProbe(h) /\ ShvVmxEptProbe(h)

\* Vendor texts, lowest byte first: EBX, EDX, ECX spell the vendor string.
Vendor(ebx, edx, ecx) == [ebx |-> ebx, ecx |-> ecx, edx |-> edx]
GenuineIntel ==
    Vendor(<<"G", "e", "n", "u">>, <<"i", "n", "e", "I">>,
           <<"n", "t", "e", "l">>)
AuthenticAMD ==
    Vendor(<<"A", "u", "t", "h">>, <<"e", "n", "t", "i">>,
           <<"c", "A", "M", "D">>)
GenuineTMx86 ==
    Vendor(<<"G", "e", "n", "u">>, <<"i", "n", "e", "T">>,
           <<"M", "x", "8", "6">>)
Vendors == {GenuineIntel, AuthenticAMD, GenuineTMx86}

\* The machines the probes run on: every combination of the vendors with
\* the bits the specification names set or clear.
Hardware ==
    [vendor : Vendors,
     features : SUBSET (CPUID_VMX_BIT \cup CPUID_HYPERVISOR_BIT),
     featureControl : SUBSET (IA32_FEATURE_CONTROL_MSR_LOCK \cup
                              IA32_FEATURE_CONTROL_MSR_ENABLE_VMXON_OUTSIDE_SMX),
     procbasedCtls : SUBSET SecondaryControlsAllowed,
     procbasedCtls2 : SUBSET EptAllowed]
\* A machine SimpleVisor is written for.
IntelWithEpt ==
    [vendor |-> GenuineIntel, features |-> CPUID_VMX_BIT,
     featureControl |-> IA32_FEATURE_CONTROL_MSR_LOCK \cup
                        IA32_FEATURE_CONTROL_MSR_ENABLE_VMXON_OUTSIDE_SMX,
     procbasedCtls |-> SecondaryControlsAllowed,
     procbasedCtls2 |-> EptAllowed]
\* The BOOLEAN a probe returns, or "none" before it ran.
Boolean(b) == IF b THEN "TRUE" ELSE "FALSE"
NoProbe == [result |-> "none", cleared |-> "none", before |-> "none"]

\* ------------------------------------------- the fixed bits of CR0 and CR4
\* A control register and the low dword of a capability MSR are the sets of
\* their one bits over sample positions: PE and PG of CR0, PAE and VMXE of
\* CR4.  Bits 63:32 of both registers are reserved and read as zero.
Cr0Bits == {0, 31}
Cr4Bits == {5, 13}

\* The mutant of FixedBits that leaves out the must-be-one bits.
FixedBitsWithoutFixed0(cr, fixed0, fixed1) == cr \cap fixed1
\* Registers->Cr0 &= VpData->MsrData[7].LowPart;
\* Registers->Cr0 |= VpData->MsrData[6].LowPart;  and the same for Cr4 with
\* MsrData[9] and MsrData[8]: fixed1 holds the bits that may be one, fixed0
\* the bits that must be one.
FixedBits(cr, fixed0, fixed1) == (cr \cap fixed1) \cup fixed0

\* VpData of a processor before ShvVmxEnterRootModeOnVp: the special
\* registers KeSaveStateForHibernate captured, the capability MSRs 6 to 9
\* (IA32_VMX_CR0_FIXED0, CR0_FIXED1, CR4_FIXED0, CR4_FIXED1), the registers
\* as they were captured, and the writes of control registers, VMXON and
\* the VMWRITEs of the fields of CR0 and CR4, each with its value, in order.
NoNarrow ==
    [Registers |-> [Cr0 |-> {}, Cr4 |-> {}],
     MsrData |-> [i \in 6..9 |-> {}],
     captured |-> [Cr0 |-> {}, Cr4 |-> {}],
     log |-> <<>>, pc |-> "none"]

\* ShvVmxEnterRootModeOnVp from the update of CR0 to VMXON.
EnterRootModeWithFixedBits(n, fault) ==
    LET Cr0 == FixedBits(n.Registers.Cr0, n.MsrData[6], n.MsrData[7])
        Cr4 == FixedBits(n.Registers.Cr4, n.MsrData[8], n.MsrData[9])
    IN  [n EXCEPT !.Registers = [Cr0 |-> Cr0, Cr4 |-> Cr4],
                  !.log = @ \o << <<"__writecr0", Cr0>>, <<"__writecr4", Cr4>>,
                                  <<"VMXON", {}>> >>,
                  !.pc = IF fault THEN "returned" ELSE "root"]

\* ShvVmxSetupVmcsForVp: the VMWRITEs that load CR0 and CR4 from
\* state->SpecialRegisters.
WriteControlRegisters(n) ==
    [n EXCEPT !.log = @ \o << <<"CR0_READ_SHADOW", n.Registers.Cr0>>,
                              <<"HOST_CR0", n.Registers.Cr0>>,
                              <<"GUEST_CR0", n.Registers.Cr0>>,
                              <<"HOST_CR4", n.Registers.Cr4>>,
                              <<"GUEST_CR4", n.Registers.Cr4>>,
                              <<"CR4_READ_SHADOW", n.Registers.Cr4>> >>,
              !.pc = "setup"]

\* No address has been taken apart.
NoAddress ==
    [QuadPart |-> Zero64, done |-> FALSE, fields |-> VMX_EPT_ADDRESS(Zero64),
     index |-> [level \in 1..VMX_EPT_PAGE_WALK_LENGTH |-> 0],
     reassembled |-> Zero64]
\* Sample values of a 9-bit index, of the bits from 48 up and of the offset.
SampleIndexes == {0, 1, 170, EntriesPerTable - 1}
SampleReserved == {0, 1}
SampleOffsets == {0, 291, OffLimit - 1}
SampleAddresses ==
    { U64(r * EntriesPerTable + i4,
          (i3 * EntriesPerTable + i2) * EntriesPerTable + i1, o) :
        r \in SampleReserved, i4 \in SampleIndexes, i3 \in SampleIndexes,
        i2 \in {0, 170}, i1 \in SampleIndexes, o \in SampleOffsets }

\* ------------------------------------------------- control adjustment
\* The mutant of ShvUtilAdjustMsr that leaves out the required bits.
AdjustWithoutRequired(ControlValue, DesiredValue) ==
    DesiredValue \cap ControlValue.HighPart

\* ShvUtilAdjustMsr: DesiredValue &= ControlValue.HighPart;
\*                   DesiredValue |= ControlValue.LowPart;
ShvUtilAdjustMsr(ControlValue, DesiredValue) ==
    (DesiredValue \cap ControlValue.HighPart) \cup ControlValue.LowPart

\* Bit positions of a dword that the inputs set or clear: the lowest, one
\* in the middle and the highest.
SampleBits == {0, 13, 31}
Dwords == SUBSET SampleBits
NoAdjust == [ControlValue |-> [HighPart |-> {}, LowPart |-> {}],
             DesiredValue |-> {}, done |-> FALSE, r |-> {}]

\* ----------------------------------------------- bring-up of a processor
\* The registers RtlCaptureContext stores in a CONTEXT: the general
\* registers, the stack pointer, the instruction pointer and the flags.
Registers(gpr, rsp, rip, eflags) ==
    [Gpr |-> gpr, Rsp |-> rsp, Rip |-> rip, EFlags |-> eflags]
ZeroContext == Registers("0", "0", "0", "0")
\* The registers of the DPC when it calls ShvVpInitialize.
CallerRegisters == Registers("caller", "dpc stack", "ShvVpInitialize", "caller")

\* A slot of ShvGlobalData->VpData as ShvVpAllocateGlobalData zeroes it.
ZeroVpData ==
    [VmxEnabled |-> 0, ContextFrame |-> ZeroContext,
     SystemDirectoryTableBase |-> Zero64]

\* The guest stack pointer, instruction pointer and flags of a VMCS.
GuestState(rsp, rip, rflags) ==
    [GUEST_RSP |-> rsp, GUEST_RIP |-> rip, GUEST_RFLAGS |-> rflags]

\* A processor outside VMX operation with no DPC running on it: its
\* registers, its VMX operation ("off", "root" or "guest"), the state of its
\* VMCS, the VMX instructions it executed, the values of VmxEnabled it read
\* after the capture, and the context its first capture stored; where its
\* DPC stands ("none", "queued", "running", "barrier" or "done"), the Context
\* of that DPC, the slot its vpData points to (0: not yet taken) and the
\* calls of ShvVpUninitialize it made.
IdleLp ==
    [pc |-> "idle", regs |-> CallerRegisters, vmx |-> "off",
     vmcs |-> "none", guest |-> GuestState("0", "0", "0"), log |-> <<>>,
     observed |-> <<>>, captures |-> 0, restores |-> 0,
     captured |-> ZeroContext,
     dpc |-> "none", Context |-> "none", Data |-> 0, teardowns |-> 0]

\* SHV_VP_DATA: ShvGlobalData->VpData[KeGetCurrentProcessorNumberEx(NULL)],
\* the slot of the processor the code runs on.
\* The mutant of SHV_VP_DATA that takes the slot of processor 1 on every
\* processor.
SlotOfFirstProcessor(c) == 1
SHV_VP_DATA(c) == c

\* ShvVpUninitialize: the CPUID that asks the hypervisor to leave; a
\* processor that runs as guest comes back outside VMX operation.
ShvVpUninitialize(l) ==
    [l EXCEPT !.teardowns = @ + 1,
              !.vmx = IF @ = "guest" THEN "off" ELSE @]

\* The mutant of KeSignalCallDpcSynchronize that lets a processor through
\* at once.
NoBarrier(l) == TRUE
\* KeSignalCallDpcSynchronize returns when the DPC of every processor has
\* called it.
KeSignalCallDpcSynchronize(l) ==
    \A d \in DOMAIN l : l[d].dpc \in {"barrier", "done"}

\* RtlCaptureContext stores the registers of its caller; the stored
\* instruction pointer is its return address, the statement after the call.
AfterCapture == "after RtlCaptureContext"
RtlCaptureContext(regs) == [regs EXCEPT !.Rip = AfterCapture]
\* The mutant of RtlRestoreContext that restores the instruction pointer,
\* stack pointer and flags but no general register.
RestoreWithoutGpr(regs, ctx) == [ctx EXCEPT !.Gpr = regs.Gpr]
\* RtlRestoreContext loads every register from the frame.
RtlRestoreContext(regs, ctx) == ctx
\* The registers while the launch code runs: the caller's values are gone.
Clobbered(regs) ==
    [regs EXCEPT !.Gpr = "dirty", !.Rsp = "launch stack",
                 !.Rip = "ShvVmxLaunchOnVp", !.EFlags = "dirty"]

\* The mutant of ShvVpInitializeBranch without the branch of the launched
\* processor.
BranchWithoutRestore(current, data) ==
    IF data = 0 THEN "launch" ELSE "return"
\* The branches of ShvVpInitialize after the capture:
\*   if (SHV_VP_DATA.VmxEnabled == 1) ... else if (Data->VmxEnabled == 0) ...
ShvVpInitializeBranch(current, data) ==
    IF current = 1 THEN "restore"
    ELSE IF data = 0 THEN "launch" ELSE "return"

\* IA32_VMX_BASIC as ShvVmxEnterRootModeOnVp reads it: the size of the VMCS,
\* its memory type and the bit that announces the true capability MSRs.
MTRR_TYPE_WB == 6
VmxBasic(size, type, true) ==
    [VmcsSize |-> size, MemoryType |-> type, Default1Zero |-> true]
VmxBasics ==
    { VmxBasic(Pow2(PAGE_SHIFT), MTRR_TYPE_WB, TRUE),
      VmxBasic(Pow2(PAGE_SHIFT) + 1, MTRR_TYPE_WB, TRUE),
      VmxBasic(Pow2(PAGE_SHIFT), 0, TRUE),
      VmxBasic(Pow2(PAGE_SHIFT), MTRR_TYPE_WB, FALSE) }
\* The VMX instruction that fails, if one does.
Faults == {"none", "VMXON", "VMCLEAR", "VMPTRLD", "VMLAUNCH"}

Executed(l, op, arg) == [l EXCEPT !.log = Append(@, <<op, arg>>)]
Outcome(failed) == IF failed THEN "failed" ELSE "ok"

\* The mutant of ShvVmxEnterRootModeOnVp that does not test the result of
\* VMPTRLD.
EnterRootModeIgnoringVmptrld(l, basic, fault) ==
    IF \/ basic.VmcsSize > Pow2(PAGE_SHIFT)
       \/ basic.MemoryType # MTRR_TYPE_WB
       \/ ~basic.Default1Zero
    THEN [l |-> l, ret |-> FALSE]
    ELSE IF fault = "VMXON"
    THEN [l |-> Executed(l, "VMXON", "failed"), ret |-> FALSE]
    ELSE IF fault = "VMCLEAR"
    THEN [l |-> [Executed(Executed(l, "VMXON", "ok"), "VMCLEAR", "failed")
                 EXCEPT !.vmx = "root"],
          ret |-> FALSE]
    ELSE [l |-> [Executed(Executed(Executed(l, "VMXON", "ok"),
                                   "VMCLEAR", "ok"),
                          "VMPTRLD", Outcome(fault = "VMPTRLD"))
                 EXCEPT !.vmx = "root",
                        !.vmcs = IF fault = "VMPTRLD" THEN "clear"
                                 ELSE "active"],
          ret |-> TRUE]

\* ShvVmxEnterRootModeOnVp: the three tests of IA32_VMX_BASIC, then VMXON,
\* VMCLEAR and VMPTRLD; each failure returns FALSE at once.
ShvVmxEnterRootModeOnVp(l, basic, fault) ==
    IF \/ basic.VmcsSize > Pow2(PAGE_SHIFT)
       \/ basic.MemoryType # MTRR_TYPE_WB
       \/ ~basic.Default1Zero
    THEN [l |-> l, ret |-> FALSE]
    ELSE IF fault = "VMXON"
    THEN [l |-> Executed(l, "VMXON", "failed"), ret |-> FALSE]
    ELSE IF fault = "VMCLEAR"
    THEN [l |-> [Executed(Executed(l, "VMXON", "ok"), "VMCLEAR", "failed")
                 EXCEPT !.vmx = "root"],
          ret |-> FALSE]
    ELSE IF fault = "VMPTRLD"
    THEN [l |-> [Executed(Executed(Executed(l, "VMXON", "ok"),
                                   "VMCLEAR", "ok"), "VMPTRLD", "failed")
                 EXCEPT !.vmx = "root", !.vmcs = "clear"],
          ret |-> FALSE]
    ELSE [l |-> [Executed(Executed(Executed(l, "VMXON", "ok"),
                                   "VMCLEAR", "ok"), "VMPTRLD", "ok")
                 EXCEPT !.vmx = "root", !.vmcs = "active"],
          ret |-> TRUE]

\* The fields ShvVmxSetupVmcsForVp writes, in the order of its VMWRITEs.
VmcsFields ==
    << "VMCS_LINK_POINTER", "MSR_BITMAP", "VIRTUAL_PROCESSOR_ID",
       "EPT_POINTER", "SECONDARY_VM_EXEC_CONTROL",
       "PIN_BASED_VM_EXEC_CONTROL", "CPU_BASED_VM_EXEC_CONTROL",
       "VM_EXIT_CONTROLS", "VM_ENTRY_CONTROLS", "GUEST_CS_SELECTOR",
       "GUEST_CS_LIMIT", "GUEST_CS_AR_BYTES", "GUEST_CS_BASE",
       "HOST_CS_SELECTOR", "GUEST_SS_SELECTOR", "GUEST_SS_LIMIT",
       "GUEST_SS_AR_BYTES", "GUEST_SS_BASE", "HOST_SS_SELECTOR",
       "GUEST_DS_SELECTOR", "GUEST_DS_LIMIT", "GUEST_DS_AR_BYTES",
       "GUEST_DS_BASE", "HOST_DS_SELECTOR", "GUEST_ES_SELECTOR",
       "GUEST_ES_LIMIT", "GUEST_ES_AR_BYTES", "GUEST_ES_BASE",
       "HOST_ES_SELECTOR", "GUEST_FS_SELECTOR", "GUEST_FS_LIMIT",
       "GUEST_FS_AR_BYTES", "GUEST_FS_BASE", "HOST_FS_BASE",
       "HOST_FS_SELECTOR", "GUEST_GS_SELECTOR", "GUEST_GS_LIMIT",
       "GUEST_GS_AR_BYTES", "GUEST_GS_BASE", "HOST_GS_BASE",
       "HOST_GS_SELECTOR", "GUEST_TR_SELECTOR", "GUEST_TR_LIMIT",
       "GUEST_TR_AR_BYTES", "GUEST_TR_BASE", "HOST_TR_BASE",
       "HOST_TR_SELECTOR", "GUEST_LDTR_SELECTOR", "GUEST_LDTR_LIMIT",
       "GUEST_LDTR_AR_BYTES", "GUEST_LDTR_BASE", "GUEST_GDTR_BASE",
       "GUEST_GDTR_LIMIT", "HOST_GDTR_BASE", "GUEST_IDTR_BASE",
       "GUEST_IDTR_LIMIT", "HOST_IDTR_BASE", "CR0_READ_SHADOW",
       "HOST_CR0", "GUEST_CR0", "HOST_CR3", "GUEST_CR3", "HOST_CR4",
       "GUEST_CR4", "CR4_READ_SHADOW", "GUEST_IA32_DEBUGCTL",
       "GUEST_DR7", "GUEST_RSP", "GUEST_RIP", "GUEST_RFLAGS",
       "HOST_RSP", "HOST_RIP" >>

\* One VMWRITE per field, in order.
WriteFields(l) ==
    [l EXCEPT !.log = @ \o [k \in 1..Len(VmcsFields) |->
                                <<"VMWRITE", VmcsFields[k]>>]]

\* GUEST_RSP, GUEST_RIP and GUEST_RFLAGS come from state->ContextFrame.
GuestStateOf(l, d) ==
    GuestState(d.ContextFrame.Rsp, d.ContextFrame.Rip, d.ContextFrame.EFlags)

\* ShvVmxSetupVmcsForVp: every field is written to the current VMCS.
ShvVmxSetupVmcsForVp(l, d) ==
    [WriteFields(l) EXCEPT !.guest = GuestStateOf(l, d)]

\* The mutant of AfterFailedLaunch that returns without VMXOFF.
ReturnWithoutVmxOff(l) == l
\* __vmx_off() after a VMLAUNCH that came back.
AfterFailedLaunch(l) == [Executed(l, "VMXOFF", "ok") EXCEPT !.vmx = "off"]

\* VMLAUNCH: on success the processor is the guest, at the guest stack
\* pointer, instruction pointer and flags of the VMCS, its general
\* registers as the launch code left them; on failure the next statement
\* runs.
VmLaunch(l, fault) ==
    IF fault = "VMLAUNCH"
    THEN AfterFailedLaunch(Executed(l, "VMLAUNCH", "failed"))
    ELSE [Executed(l, "VMLAUNCH", "ok") EXCEPT
            !.vmx = "guest", !.vmcs = "launched",
            !.regs = Registers(l.regs.Gpr, l.guest.GUEST_RSP,
                               l.guest.GUEST_RIP, l.guest.GUEST_RFLAGS)]

\* ------------------------------------------------------------- the state
VARIABLES
    mem,                    \* the allocated pages: virtual address -> table
    ShvVmxEptPML4,          \* the static pointer to the PML4, or NULL
    ShvVmxEptEptp,          \* the global EPTP
    MmPhysicalMemoryRanges, \* the range list of the machine
    ApicBaseMsr,            \* the value of IA32_APIC_BASE
    DBG,                    \* a checked build: a failed assertion stops
    phase,                  \* "initial", "running", "failed" or "unloaded"
    halted,                 \* an assertion failure was raised
    nAlloc, nFree,          \* pages allocated and pages freed so far
    violations,             \* EPT violations handled so far
    mapped,                 \* the addresses mapped into the present tree
    last,                   \* the last call and the state it started from
    prev,                   \* the call before it
    cpu,                    \* per processor: where its handler stands
    hw,                     \* the CPUID leaves and MSRs the probes read
    probe,                  \* the result of the probes on hw
    adjust,                 \* a call of ShvUtilAdjustMsr and its result
    VpData,                 \* ShvGlobalData->VpData: one slot per processor
    lp,                     \* per processor: registers, VMX state, position
    eptAddress,             \* a VMX_EPT_ADDRESS and what was read from it
    narrow                  \* CR0 and CR4 of a processor on their way to VMXON

vars == <<mem, ShvVmxEptPML4, ShvVmxEptEptp, MmPhysicalMemoryRanges,
          ApicBaseMsr, DBG, phase, halted, nAlloc, nFree, violations,
          mapped, last, prev, cpu, hw, probe, adjust, VpData, lp,
          eptAddress, narrow>>

\* The state of the EPT engine and the state of the load path.
eptVars == <<mem, ShvVmxEptPML4, ShvVmxEptEptp, MmPhysicalMemoryRanges,
             ApicBaseMsr, DBG, phase, halted, nAlloc, nFree, violations,
             mapped, last, prev, cpu>>
loadVars == <<hw, probe, adjust, VpData, lp, eptAddress, narrow>>

\* The processors that can take an EPT violation at the same time.
NumCpus == 2
Cpus == 1..NumCpus
IdleCpu ==
    [pc |-> "idle", gpa |-> Zero64, ExitReason |-> 0, table |-> NULL,
     level |-> 0, next |-> NULL, ret |-> "none"]

Call(op, address, reason, ret) ==
    [op |-> op, address |-> address, ExitReason |-> reason, ret |-> ret]
NoCall == Call("none", Zero64, 0, "none")

Run(fail) ==
    [mem |-> mem, fail |-> fail, allocs |-> <<>>, freed |-> <<>>,
     nulls |-> 0, steps |-> <<>>, mapped |-> mapped]

Record(call, r, assertion, vmx) ==
    /\ prev' = last.call
    /\ last' = [call |-> call, assertion |-> assertion, vmx |-> vmx,
                allocs |-> r.s.allocs, freed |-> r.s.freed,
                nulls |-> r.s.nulls, steps |-> r.s.steps,
                pre |-> [mem |-> mem, pml4 |-> ShvVmxEptPML4,
                         eptp |-> ShvVmxEptEptp, nAlloc |-> nAlloc,
                         nFree |-> nFree]]
    /\ mem' = r.s.mem
    /\ mapped' = r.s.mapped
    /\ nAlloc' = nAlloc + Len(r.s.allocs)
    /\ nFree' = nFree + Len(r.s.freed)

\* Before DriverEntry: nothing probed, no processor in VMX operation.
LoadPathAtRest ==
    /\ hw = IntelWithEpt
    /\ probe = NoProbe
    /\ adjust = NoAdjust
    /\ VpData = [c \in Cpus |-> ZeroVpData]
    /\ lp = [c \in Cpus |-> IdleLp]
    /\ eptAddress = NoAddress
    /\ narrow = NoNarrow

Init ==
    /\ mem = [p \in {} |-> ZeroTable]
    /\ ShvVmxEptPML4 = NULL
    /\ ShvVmxEptEptp = ZeroEptp
    /\ \E m \in Machines : /\ MmPhysicalMemoryRanges = m.ranges
                           /\ ApicBaseMsr = m.apic
    /\ DBG \in BOOLEAN
    /\ phase = "initial"
    /\ halted = FALSE
    /\ nAlloc = 0
    /\ nFree = 0
    /\ violations = 0
    /\ mapped = {}
    /\ last = [call |-> NoCall, assertion |-> NoAssertion, vmx |-> <<>>,
               allocs |-> <<>>, freed |-> <<>>, nulls |-> 0,
               steps |-> <<>>,
               pre |-> [mem |-> [p \in {} |-> ZeroTable], pml4 |-> NULL,
                        eptp |-> ZeroEptp, nAlloc |-> 0, nFree |-> 0]]
    /\ prev = NoCall
    /\ cpu = [c \in Cpus |-> IdleCpu]
    /\ LoadPathAtRest

\* The driver loads: ShvVmxEptInitialize runs once.
Initialize(fail) ==
    /\ phase = "initial"
    /\ LET r == ShvVmxEptInitialize(Run(fail), ShvVmxEptEptp,
                                    MmPhysicalMemoryRanges, ApicBaseMsr)
       IN  /\ Record(Call("initialize", Zero64, 0, r.ret), r, NoAssertion,
                     <<>>)
           /\ ShvVmxEptPML4' = r.pml4
           /\ ShvVmxEptEptp' = r.eptp
           /\ phase' = IF r.ret = STATUS_SUCCESS THEN "running" ELSE "failed"
    /\ UNCHANGED <<MmPhysicalMemoryRanges, ApicBaseMsr, DBG, halted,
                   violations, cpu>>
    /\ UNCHANGED loadVars

\* A processor exits with an EPT violation: ShvVmxEptHandleViolation runs.
HandleViolation(gpa, reason, fail) ==
    /\ phase = "running"
    /\ ~halted
    /\ violations < MaxViolations
    /\ LET r == ShvVmxEptHandleViolation(Run(fail), ShvVmxEptPML4, reason,
                                         gpa)
       IN  /\ Record(Call("handle_violation", gpa, reason, r.ret), r,
                     r.assertion, r.vmx)
           /\ halted' = (DBG /\ r.assertion # NoAssertion)
    /\ violations' = violations + 1
    /\ UNCHANGED <<ShvVmxEptPML4, ShvVmxEptEptp, MmPhysicalMemoryRanges,
                   ApicBaseMsr, DBG, phase, cpu>>
    /\ UNCHANGED loadVars

\* The driver unloads, or unwinds a load that failed: ShvVmxEptCleanup runs.
Cleanup ==
    /\ phase # "initial"
    /\ ~halted
    /\ last.call.op # "cleanup" \/ prev.op # "cleanup"
    /\ LET r == ShvVmxEptCleanup(Run(0), ShvVmxEptPML4)
       IN  /\ Record(Call("cleanup", Zero64, 0, "none"), r, NoAssertion, <<>>)
           /\ ShvVmxEptPML4' = r.pml4
    /\ phase' = IF phase = "running" THEN "unloaded" ELSE phase
    /\ UNCHANGED <<ShvVmxEptEptp, MmPhysicalMemoryRanges, ApicBaseMsr, DBG,
                   halted, violations, cpu>>
    /\ UNCHANGED loadVars

Next ==
    \/ \E fail \in BuildFailPoints : Initialize(fail)
    \/ \E gpa \in GuestAddresses, reason \in ExitReasons,
          fail \in WalkFailPoints : HandleViolation(gpa, reason, fail)
    \/ Cleanup

Spec == Init /\ [][Next]_vars

\* ------------------------------------------------- handlers in parallel
\* After the launch every processor runs ShvVmxEptHandleViolation on its own
\* exits.  The steps of a handler are the reads and writes of the shared
\* tables in the order of the source, one entry field per write.
SmpAddresses == { U64(0, 7, 0), U64(0, 8, 0), U64(1, 0, 0) }
SmpExitReasons == {0, 9}
SmpMachine == [ranges |-> <<Sentinel>>, apic |-> DefaultApicMsr]
\* The state a successful build leaves.
SmpBuilt ==
    ShvVmxEptInitialize(
        [mem |-> [p \in {} |-> ZeroTable], fail |-> 0, allocs |-> <<>>,
         freed |-> <<>>, nulls |-> 0, steps |-> <<>>, mapped |-> {}],
        ZeroEptp, SmpMachine.ranges, SmpMachine.apic)

InitSMP ==
    /\ mem = SmpBuilt.s.mem
    /\ ShvVmxEptPML4 = SmpBuilt.pml4
    /\ ShvVmxEptEptp = SmpBuilt.eptp
    /\ MmPhysicalMemoryRanges = SmpMachine.ranges
    /\ ApicBaseMsr = SmpMachine.apic
    /\ DBG \in BOOLEAN
    /\ phase = "running"
    /\ halted = FALSE
    /\ nAlloc = Len(SmpBuilt.s.allocs)
    /\ nFree = 0
    /\ violations = 0
    /\ mapped = SmpBuilt.s.mapped
    /\ last = [call |-> Call("initialize", Zero64, 0, SmpBuilt.ret),
               assertion |-> NoAssertion, vmx |-> <<>>,
               allocs |-> SmpBuilt.s.allocs, freed |-> <<>>, nulls |-> 0,
               steps |-> <<>>,
               pre |-> [mem |-> [p \in {} |-> ZeroTable], pml4 |-> NULL,
                        eptp |-> ZeroEptp, nAlloc |-> 0, nFree |-> 0]]
    /\ prev = NoCall
    /\ cpu = [c \in Cpus |-> IdleCpu]
    /\ LoadPathAtRest

SmpFrame ==
    UNCHANGED <<ShvVmxEptPML4, ShvVmxEptEptp, MmPhysicalMemoryRanges,
                ApicBaseMsr, DBG, phase, nFree, last, prev, hw, probe,
                adjust, VpData, lp, eptAddress, narrow>>
Goto(c, pc) == cpu' = [cpu EXCEPT ![c].pc = pc]
EntryOf(c) ==
    EntryAt(TableAt(mem, cpu[c].table), LevelIndex(cpu[c].gpa, cpu[c].level))
\* One field of the entry the walk of c stands at is written.
StoreField(c, e) ==
    mem' = IF cpu[c].table \in DOMAIN mem
           THEN [mem EXCEPT ![cpu[c].table] =
                    StoreEntry(@, LevelIndex(cpu[c].gpa, cpu[c].level), e)]
           ELSE mem

\* The exit: __vmx_vmread(GUEST_PHYSICAL_ADDRESS, &gpa).
VmExit(c, gpa, reason) ==
    /\ ~halted
    /\ cpu[c].pc = "idle"
    /\ violations < MaxViolations
    /\ violations' = violations + 1
    /\ cpu' = [cpu EXCEPT ![c] = [IdleCpu EXCEPT !.pc = "dispatch",
                                     !.gpa = gpa, !.ExitReason = reason]]
    /\ UNCHANGED <<mem, nAlloc, mapped, halted>>
    /\ SmpFrame

\* if (SHV_EPT_VIOLATION_ENTRY_MISS(VpState->ExitReason)): the walk is
\* entered at level 4 on the PML4, or the assertion at the end is reached.
Dispatch(c) ==
    /\ ~halted
    /\ cpu[c].pc = "dispatch"
    /\ IF SHV_EPT_VIOLATION_ENTRY_MISS(cpu[c].ExitReason)
       THEN /\ cpu' = [cpu EXCEPT ![c].pc = "walk",
                          ![c].table = ShvVmxEptPML4,
                          ![c].level = VMX_EPT_PAGE_WALK_LENGTH]
            /\ UNCHANGED halted
       ELSE /\ cpu' = [cpu EXCEPT ![c] = IdleCpu]
            /\ halted' = DBG
    /\ UNCHANGED <<mem, nAlloc, mapped, violations>>
    /\ SmpFrame

\* The entry of the current level is read and tested for zero.
ReadLevel(c) ==
    /\ ~halted
    /\ cpu[c].pc = "walk"
    /\ cpu' = [cpu EXCEPT
          ![c] = IF cpu[c].level = 1
                 THEN IF MustPopulate(EntryOf(c))
                      THEN [@ EXCEPT !.pc = "leafR"]
                      ELSE [@ EXCEPT !.pc = "verify", !.ret = STATUS_SUCCESS]
                 ELSE IF MustAllocate(EntryOf(c))
                      THEN [@ EXCEPT !.pc = "alloc"]
                      ELSE [@ EXCEPT
                              !.table = ShvVmxEptGetVirtualFromPfn(EntryOf(c).PFN),
                              !.level = @ - 1]]
    /\ UNCHANGED <<mem, nAlloc, mapped, violations, halted>>
    /\ SmpFrame

\* next = ShvUtilAllocateContiguousMemory(PAGE_SIZE), which may return NULL.
AllocateTable(c, fail) ==
    /\ ~halted
    /\ cpu[c].pc = "alloc"
    /\ LET a == ShvUtilAllocateContiguousMemory(Run(fail))
       IN  /\ mem' = a.s.mem
           /\ nAlloc' = nAlloc + Len(a.s.allocs)
           /\ cpu' = [cpu EXCEPT
                 ![c] = IF a.va = NULL
                        THEN [@ EXCEPT !.pc = "verify",
                                       !.ret = STATUS_HV_NO_RESOURCES]
                        ELSE [@ EXCEPT !.pc = "zero", !.next = a.va]]
    /\ UNCHANGED <<mapped, violations, halted>>
    /\ SmpFrame

\* __stosq(next, 0, PAGE_SIZE / sizeof(ULONG64))
ZeroNewTable(c) ==
    /\ ~halted
    /\ cpu[c].pc = "zero"
    /\ mem' = ZeroPage(Run(0), cpu[c].next).mem
    /\ Goto(c, "dirR")
    /\ UNCHANGED <<nAlloc, mapped, violations, halted>>
    /\ SmpFrame

\* ta.Entry->R = 1; ta.Entry->W = 1; ta.Entry->X = 1
DirSetR(c) ==
    /\ ~halted
    /\ cpu[c].pc = "dirR"
    /\ StoreField(c, [EntryOf(c) EXCEPT !.R = 1])
    /\ Goto(c, "dirW")
    /\ UNCHANGED <<nAlloc, mapped, violations, halted>>
    /\ SmpFrame

DirSetW(c) ==
    /\ ~halted
    /\ cpu[c].pc = "dirW"
    /\ StoreField(c, [EntryOf(c) EXCEPT !.W = 1])
    /\ Goto(c, "dirX")
    /\ UNCHANGED <<nAlloc, mapped, violations, halted>>
    /\ SmpFrame

DirSetX(c) ==
    /\ ~halted
    /\ cpu[c].pc = "dirX"
    /\ StoreField(c, [EntryOf(c) EXCEPT !.X = 1])
    /\ Goto(c, "dirPFN")
    /\ UNCHANGED <<nAlloc, mapped, violations, halted>>
    /\ SmpFrame

\* ta.Entry->PFN = ShvVmxEptGetPfnFromVirtual(next), and the recursive call.
DirSetPfn(c) ==
    /\ ~halted
    /\ cpu[c].pc = "dirPFN"
    /\ StoreField(c, [EntryOf(c) EXCEPT
                         !.PFN = DirectoryEntry(ZeroEntry, cpu[c].next).PFN])
    /\ cpu' = [cpu EXCEPT ![c].pc = "walk", ![c].table = cpu[c].next,
                          ![c].level = @ - 1]
    /\ UNCHANGED <<nAlloc, mapped, violations, halted>>
    /\ SmpFrame

\* pte->R = 1; pte->W = 1; pte->X = 1; pte->MT = WriteBack
LeafSetR(c) ==
    /\ ~halted
    /\ cpu[c].pc = "leafR"
    /\ StoreField(c, [EntryOf(c) EXCEPT !.R = 1])
    /\ Goto(c, "leafW")
    /\ UNCHANGED <<nAlloc, mapped, violations, halted>>
    /\ SmpFrame

LeafSetW(c) ==
    /\ ~halted
    /\ cpu[c].pc = "leafW"
    /\ StoreField(c, [EntryOf(c) EXCEPT !.W = 1])
    /\ Goto(c, "leafX")
    /\ UNCHANGED <<nAlloc, mapped, violations, halted>>
    /\ SmpFrame

LeafSetX(c) ==
    /\ ~halted
    /\ cpu[c].pc = "leafX"
    /\ StoreField(c, [EntryOf(c) EXCEPT !.X = 1])
    /\ Goto(c, "leafMT")
    /\ UNCHANGED <<nAlloc, mapped, violations, halted>>
    /\ SmpFrame

LeafSetMt(c) ==
    /\ ~halted
    /\ cpu[c].pc = "leafMT"
    /\ StoreField(c, [EntryOf(c) EXCEPT !.MT = WriteBack])
    /\ Goto(c, "leafPFN")
    /\ UNCHANGED <<nAlloc, mapped, violations, halted>>
    /\ SmpFrame

\* pte->PFN = SHV_PHYS_TO_PFN(address.QuadPart); return STATUS_SUCCESS
LeafSetPfn(c) ==
    /\ ~halted
    /\ cpu[c].pc = "leafPFN"
    /\ StoreField(c, [EntryOf(c) EXCEPT
                         !.PFN = LeafEntry(ZeroEntry, cpu[c].gpa).PFN])
    /\ cpu' = [cpu EXCEPT ![c].pc = "verify", ![c].ret = STATUS_SUCCESS]
    /\ UNCHANGED <<nAlloc, mapped, violations, halted>>
    /\ SmpFrame

\* NT_VERIFYMSG("GPA EPT Allocation Failed", ret == STATUS_SUCCESS); return
Verify(c) ==
    /\ ~halted
    /\ cpu[c].pc = "verify"
    /\ halted' = (DBG /\ cpu[c].ret # STATUS_SUCCESS)
    /\ mapped' = IF cpu[c].ret = STATUS_SUCCESS
                 THEN mapped \cup {cpu[c].gpa} ELSE mapped
    /\ cpu' = [cpu EXCEPT ![c] = IdleCpu]
    /\ UNCHANGED <<mem, nAlloc, violations>>
    /\ SmpFrame

NextSMP ==
    \E c \in Cpus :
        \/ \E gpa \in SmpAddresses, reason \in SmpExitReasons :
              VmExit(c, gpa, reason)
        \/ Dispatch(c)
        \/ ReadLevel(c)
        \/ \E fail \in {0, 1} : AllocateTable(c, fail)
        \/ ZeroNewTable(c)
        \/ DirSetR(c) \/ DirSetW(c) \/ DirSetX(c) \/ DirSetPfn(c)
        \/ LeafSetR(c) \/ LeafSetW(c) \/ LeafSetX(c) \/ LeafSetMt(c)
        \/ LeafSetPfn(c)
        \/ Verify(c)

SpecSMP == InitSMP /\ [][NextSMP]_vars

\* ------------------------------------------------------ the load path
\* The EPT engine before ShvVmxEptInitialize, on the machine with no memory
\* ranges.
EptAtRest ==
    /\ mem = [p \in {} |-> ZeroTable]
    /\ ShvVmxEptPML4 = NULL
    /\ ShvVmxEptEptp = ZeroEptp
    /\ MmPhysicalMemoryRanges = <<Sentinel>>
    /\ ApicBaseMsr = DefaultApicMsr
    /\ DBG = FALSE
    /\ phase = "initial"
    /\ halted = FALSE
    /\ nAlloc = 0
    /\ nFree = 0
    /\ violations = 0
    /\ mapped = {}
    /\ last = [call |-> NoCall, assertion |-> NoAssertion, vmx |-> <<>>,
               allocs |-> <<>>, freed |-> <<>>, nulls |-> 0,
               steps |-> <<>>,
               pre |-> [mem |-> [p \in {} |-> ZeroTable], pml4 |-> NULL,
                        eptp |-> ZeroEptp, nAlloc |-> 0, nFree |-> 0]]
    /\ prev = NoCall
    /\ cpu = [c \in Cpus |-> IdleCpu]

InitProbe ==
    /\ EptAtRest
    /\ hw \in Hardware
    /\ probe = NoProbe
    /\ adjust = NoAdjust
    /\ VpData = [c \in Cpus |-> ZeroVpData]
    /\ lp = [c \in Cpus |-> IdleLp]
    /\ eptAddress = NoAddress
    /\ narrow = NoNarrow

\* DriverEntry asks both probes.
RunProbes ==
    /\ probe.result = "none"
    /\ probe' = [probe EXCEPT !.result = Boolean(ProbeSupported(hw))]
    /\ UNCHANGED <<hw, adjust, VpData, lp, eptAddress, narrow>>
    /\ UNCHANGED eptVars

\* The firmware setting or the capability is taken away: one bit that was
\* set is cleared, and the probes are asked again.
ClearBit(which) ==
    /\ probe.result # "none"
    /\ probe.cleared = "none"
    /\ \/ /\ which = "ept"
          /\ EptAllowed \subseteq hw.procbasedCtls2
          /\ hw' = [hw EXCEPT !.procbasedCtls2 = @ \ EptAllowed]
       \/ /\ which = "lock"
          /\ IA32_FEATURE_CONTROL_MSR_LOCK \subseteq hw.featureControl
          /\ hw' = [hw EXCEPT
                      !.featureControl = @ \ IA32_FEATURE_CONTROL_MSR_LOCK]
    /\ probe' = [result |-> "none", cleared |-> which,
                 before |-> probe.result]
    /\ UNCHANGED <<adjust, VpData, lp, eptAddress, narrow>>
    /\ UNCHANGED eptVars

NextProbe ==
    \/ RunProbes
    \/ \E which \in {"ept", "lock"} : ClearBit(which)

SpecProbe == InitProbe /\ [][NextProbe]_vars

InitAdjust ==
    /\ EptAtRest
    /\ hw = IntelWithEpt
    /\ probe = NoProbe
    /\ \E high \in Dwords, low \in Dwords, desired \in Dwords :
           adjust = [ControlValue |-> [HighPart |-> high, LowPart |-> low],
                     DesiredValue |-> desired, done |-> FALSE, r |-> {}]
    /\ VpData = [c \in Cpus |-> ZeroVpData]
    /\ lp = [c \in Cpus |-> IdleLp]
    /\ eptAddress = NoAddress
    /\ narrow = NoNarrow

\* A control field is computed from its capability MSR.
AdjustMsr ==
    /\ ~adjust.done
    /\ adjust' = [adjust EXCEPT
                    !.done = TRUE,
                    !.r = ShvUtilAdjustMsr(adjust.ControlValue,
                                           adjust.DesiredValue)]
    /\ UNCHANGED <<hw, probe, VpData, lp, eptAddress, narrow>>
    /\ UNCHANGED eptVars

NextAdjust == AdjustMsr

SpecAdjust == InitAdjust /\ [][NextAdjust]_vars

\* gpa.QuadPart = address.QuadPart: an address is stored in the union and
\* its fields are read, as the walk reads the index of each level.
InitAddress ==
    /\ EptAtRest
    /\ hw = IntelWithEpt
    /\ probe = NoProbe
    /\ adjust = NoAdjust
    /\ VpData = [c \in Cpus |-> ZeroVpData]
    /\ lp = [c \in Cpus |-> IdleLp]
    /\ \E a \in SampleAddresses : eptAddress = [NoAddress EXCEPT !.QuadPart = a]
    /\ narrow = NoNarrow

SplitAddress ==
    /\ ~eptAddress.done
    /\ eptAddress' =
          [eptAddress EXCEPT
             !.done = TRUE,
             !.fields = VMX_EPT_ADDRESS(eptAddress.QuadPart),
             !.index = [level \in 1..VMX_EPT_PAGE_WALK_LENGTH |->
                           LevelIndex(eptAddress.QuadPart, level)],
             !.reassembled = Reassemble(VMX_EPT_ADDRESS(eptAddress.QuadPart))]
    /\ UNCHANGED <<hw, probe, adjust, VpData, lp, narrow>>
    /\ UNCHANGED eptVars

NextAddress == SplitAddress

SpecAddress == InitAddress /\ [][NextAddress]_vars

\* A processor enters root mode with captured control registers and
\* capability MSRs of every value, and then sets up its VMCS.
InitFixed ==
    /\ EptAtRest
    /\ hw = IntelWithEpt
    /\ probe = NoProbe
    /\ adjust = NoAdjust
    /\ VpData = [c \in Cpus |-> ZeroVpData]
    /\ lp = [c \in Cpus |-> IdleLp]
    /\ eptAddress = NoAddress
    /\ \E Cr0 \in SUBSET Cr0Bits, Cr4 \in SUBSET Cr4Bits,
          fixed \in [6..9 -> SUBSET (Cr0Bits \cup Cr4Bits)] :
          /\ fixed[6] \cup fixed[7] \subseteq Cr0Bits
          /\ fixed[8] \cup fixed[9] \subseteq Cr4Bits
          /\ narrow = [NoNarrow EXCEPT
                          !.Registers = [Cr0 |-> Cr0, Cr4 |-> Cr4],
                          !.captured = [Cr0 |-> Cr0, Cr4 |-> Cr4],
                          !.MsrData = fixed,
                          !.pc = "captured"]

EnterRootMode(fault) ==
    /\ narrow.pc = "captured"
    /\ narrow' = EnterRootModeWithFixedBits(narrow, fault)
    /\ UNCHANGED <<hw, probe, adjust, VpData, lp, eptAddress>>
    /\ UNCHANGED eptVars

SetupVmcs ==
    /\ narrow.pc = "root"
    /\ narrow' = WriteControlRegisters(narrow)
    /\ UNCHANGED <<hw, probe, adjust, VpData, lp, eptAddress>>
    /\ UNCHANGED eptVars

NextFixed ==
    \/ \E fault \in BOOLEAN : EnterRootMode(fault)
    \/ SetupVmcs

SpecFixed == InitFixed /\ [][NextFixed]_vars

\* --------------------------------------------------- the launch DPCs
\* The EPT engine after ShvVmxEptInitialize succeeded, as it is when the
\* DPCs that launch the processors run.
EptBuilt ==
    /\ mem = SmpBuilt.s.mem
    /\ ShvVmxEptPML4 = SmpBuilt.pml4
    /\ ShvVmxEptEptp = SmpBuilt.eptp
    /\ MmPhysicalMemoryRanges = SmpMachine.ranges
    /\ ApicBaseMsr = SmpMachine.apic
    /\ DBG = FALSE
    /\ phase = "running"
    /\ halted = FALSE
    /\ nAlloc = Len(SmpBuilt.s.allocs)
    /\ nFree = 0
    /\ violations = 0
    /\ mapped = SmpBuilt.s.mapped
    /\ last = [call |-> Call("initialize", Zero64, 0, SmpBuilt.ret),
               assertion |-> NoAssertion, vmx |-> <<>>,
               allocs |-> SmpBuilt.s.allocs, freed |-> <<>>, nulls |-> 0,
               steps |-> <<>>,
               pre |-> [mem |-> [p \in {} |-> ZeroTable], pml4 |-> NULL,
                        eptp |-> ZeroEptp, nAlloc |-> 0, nFree |-> 0]]
    /\ prev = NoCall
    /\ cpu = [c \in Cpus |-> IdleCpu]

InitLaunch ==
    /\ EptBuilt
    /\ hw = IntelWithEpt
    /\ probe = NoProbe
    /\ adjust = NoAdjust
    /\ VpData = [c \in Cpus |-> ZeroVpData]
    /\ lp = [c \in Cpus |-> IdleLp]
    /\ eptAddress = NoAddress
    /\ narrow = NoNarrow

\* The directory table base of the System process, the Context of the DPC.
SystemCr3 == U64(0, 427, 0)
LaunchFrame ==
    UNCHANGED <<hw, probe, adjust, eptAddress, narrow>> /\ UNCHANGED eptVars
\* Where a processor whose instruction pointer was loaded goes on.
Resume(regs) == IF regs.Rip = AfterCapture THEN "check" ELSE "lost"

\* ShvVpCallbackDpc calls ShvVpInitialize(&SHV_VP_DATA, Context):
\* KeSaveStateForHibernate and RtlCaptureContext fill Data->HostState.
OnLoad(c) ==
    /\ lp[c].pc = "idle"
    /\ lp[c].dpc = "queued" /\ lp[c].Context = "load"
    /\ VpData' = [VpData EXCEPT
                    ![SHV_VP_DATA(c)].ContextFrame =
                        RtlCaptureContext(lp[c].regs)]
    /\ lp' = [lp EXCEPT
                ![c].dpc = "running",
                ![c].Data = SHV_VP_DATA(c),
                ![c].pc = "check",
                ![c].regs = RtlCaptureContext(lp[c].regs),
                ![c].captures = @ + 1,
                ![c].captured = IF lp[c].captures = 0
                                THEN RtlCaptureContext(lp[c].regs) ELSE @]
    /\ LaunchFrame

\* The statement after the capture: the flag is read and a branch taken.
CheckFlag(c) ==
    /\ lp[c].pc = "check"
    /\ LET current == VpData[SHV_VP_DATA(c)].VmxEnabled
           branch == ShvVpInitializeBranch(current,
                                           VpData[lp[c].Data].VmxEnabled)
           restored == RtlRestoreContext(
                           lp[c].regs,
                           VpData[SHV_VP_DATA(c)].ContextFrame)
       IN  /\ VpData' =
                 IF branch = "restore"
                 THEN [VpData EXCEPT ![SHV_VP_DATA(c)].VmxEnabled = 2]
                 ELSE IF branch = "launch"
                 THEN [VpData EXCEPT
                         ![lp[c].Data].SystemDirectoryTableBase = SystemCr3]
                 ELSE VpData
           /\ lp' = [lp EXCEPT
                 ![c].observed = Append(@, current),
                 ![c].restores = IF branch = "restore" THEN @ + 1 ELSE @,
                 ![c].regs = IF branch = "restore" THEN restored
                             ELSE IF branch = "launch" THEN Clobbered(@)
                             ELSE @,
                 ![c].pc = IF branch = "restore" THEN Resume(restored)
                           ELSE IF branch = "launch" THEN "launch"
                           ELSE "returned"]
    /\ LaunchFrame

\* ShvVmxLaunchOnVp up to the assignment of the flag: the capability MSRs
\* are read, root mode is entered and, if that succeeded, the VMCS is set
\* up; if it failed, the routine returns.
EnterAndSetup(c, basic, fault) ==
    /\ lp[c].pc = "launch"
    /\ LET r == ShvVmxEnterRootModeOnVp(lp[c], basic, fault)
       IN  lp' = [lp EXCEPT
                 ![c] = IF r.ret
                        THEN [ShvVmxSetupVmcsForVp(r.l, VpData[lp[c].Data])
                              EXCEPT !.pc = "vmlaunch"]
                        ELSE [r.l EXCEPT !.pc = "returned"]]
    /\ UNCHANGED VpData
    /\ LaunchFrame

\* VpData->VmxEnabled = 1; __vmx_vmlaunch(); and, if the launch came back,
\* __vmx_off() and the return.
Launch(c, fault) ==
    /\ lp[c].pc = "vmlaunch"
    /\ VpData' = [VpData EXCEPT ![lp[c].Data].VmxEnabled = 1]
    /\ lp' = [lp EXCEPT
                ![c] = [VmLaunch(lp[c], fault) EXCEPT
                          !.pc = IF fault = "VMLAUNCH" THEN "returned"
                                 ELSE Resume(VmLaunch(lp[c], fault).regs)]]
    /\ LaunchFrame

\* KeGenericCallDpc(ShvVpCallbackDpc, Context) queues the DPC on every
\* processor and returns when all are done; the driver calls it with the
\* directory table base when it loads and with no Context when it unloads.
KeGenericCallDpc(context) ==
    /\ \A c \in Cpus : lp[c].dpc \in {"none", "done"}
    /\ \A c \in Cpus :
          lp[c].Context = IF context = "load" THEN "none" ELSE "load"
    /\ lp' = [c \in Cpus |->
                [lp[c] EXCEPT !.dpc = "queued", !.Context = context]]
    /\ UNCHANGED VpData
    /\ LaunchFrame

\* ShvVpCallbackDpc without a Context calls ShvVpUninitialize(&SHV_VP_DATA).
OnUnload(c) ==
    /\ lp[c].dpc = "queued" /\ lp[c].Context = "unload"
    /\ lp' = [lp EXCEPT
                ![c] = [ShvVpUninitialize(lp[c]) EXCEPT
                          !.dpc = "running", !.Data = SHV_VP_DATA(c)]]
    /\ UNCHANGED VpData
    /\ LaunchFrame

\* The handler has returned: KeSignalCallDpcSynchronize(SystemArgument2).
Synchronize(c) ==
    /\ lp[c].dpc = "running"
    /\ lp[c].pc = "returned"
    /\ lp' = [lp EXCEPT ![c].dpc = "barrier"]
    /\ UNCHANGED VpData
    /\ LaunchFrame

\* The barrier has opened: KeSignalCallDpcDone(SystemArgument1).
SignalDone(c) ==
    /\ lp[c].dpc = "barrier"
    /\ KeSignalCallDpcSynchronize(lp)
    /\ lp' = [lp EXCEPT ![c].dpc = "done"]
    /\ UNCHANGED VpData
    /\ LaunchFrame

NextLaunch ==
    \/ \E context \in {"load", "unload"} : KeGenericCallDpc(context)
    \/ \E c \in Cpus : OnUnload(c)
    \/ \E c \in Cpus : Synchronize(c)
    \/ \E c \in Cpus : SignalDone(c)
    \/ \E c \in Cpus : OnLoad(c)
    \/ \E c \in Cpus : CheckFlag(c)
    \/ \E c \in Cpus, basic \in VmxBasics,
          fault \in Faults \ {"VMLAUNCH"} : EnterAndSetup(c, basic, fault)
    \/ \E c \in Cpus, fault \in {"none", "VMLAUNCH"} : Launch(c, fault)

SpecLaunch == InitLaunch /\ [][NextLaunch]_vars

\* The driver is loaded a second time after a load that did not bring up
\* every processor: KeGenericCallDpc queues ShvVpCallbackDpc with the Context
\* again, and each DPC calls ShvVpInitialize on the slot the first call left.
MaxLoads == 2
LoadAgain ==
    /\ \A c \in Cpus : lp[c].dpc = "done" /\ lp[c].Context = "load"
    /\ \A c \in Cpus : lp[c].captures < MaxLoads
    /\ \E c \in Cpus : lp[c].vmx # "guest"
    /\ lp' = [c \in Cpus |->
                [lp[c] EXCEPT !.dpc = "queued", !.pc = "idle",
                              !.regs = CallerRegisters]]
    /\ UNCHANGED VpData
    /\ LaunchFrame

NextReload ==
    \/ NextLaunch
    \/ LoadAgain

SpecReload == InitLaunch /\ [][NextReload]_vars

\* A DPC runs to its end once it is queued: every processor takes its steps.
SpecDpc ==
    SpecLaunch /\ \A c \in Cpus :
        WF_vars(OnLoad(c) \/ CheckFlag(c) \/ OnUnload(c) \/ Synchronize(c)
                \/ SignalDone(c)
                \/ (\E basic \in VmxBasics, fault \in Faults \ {"VMLAUNCH"} :
                       EnterAndSetup(c, basic, fault))
                \/ (\E fault \in {"none", "VMLAUNCH"} : Launch(c, fault)))

\* ------------------------------------------------------ views of the tree
\* The tables the entries of the tables T point to.
Children(m, T) ==
    UNION { { ShvVmxEptGetVirtualFromPfn(m[t][i].PFN) : i \in DOMAIN m[t] }
            : t \in T \cap DOMAIN m }
TablesAt(m, root, level) ==
    IF root = NULL THEN {}
    ELSE CASE level = 4 -> {root}
           [] level = 3 -> Children(m, {root})
           [] level = 2 -> Children(m, Children(m, {root}))
           [] level = 1 -> Children(m, Children(m, Children(m, {root})))

\* The non-zero entries, <<table, index>>, of the tables T.
EntriesOf(m, T) ==
    UNION { { <<t, i>> : i \in DOMAIN m[t] } : t \in T \cap DOMAIN m }
DirectoryEntries(m, root) ==
    EntriesOf(m, TablesAt(m, root, 4) \cup TablesAt(m, root, 3)
                 \cup TablesAt(m, root, 2))

\* The non-zero leaves reached from the root, each with the four indices
\* that lead to it.
Leaves(m, root) ==
    IF root \notin DOMAIN m THEN {}
    ELSE UNION { UNION { UNION {
        { [path |-> <<i4, i3, i2, i1>>,
           pte |-> TableAt(m, ShvVmxEptGetVirtualFromPfn(TableAt(m,
                      ShvVmxEptGetVirtualFromPfn(TableAt(m,
                          ShvVmxEptGetVirtualFromPfn(m[root][i4].PFN))[i3].PFN)
                      )[i2].PFN))[i1]]
          : i1 \in DOMAIN TableAt(m, ShvVmxEptGetVirtualFromPfn(TableAt(m,
                      ShvVmxEptGetVirtualFromPfn(TableAt(m,
                          ShvVmxEptGetVirtualFromPfn(m[root][i4].PFN))[i3].PFN)
                      )[i2].PFN)) }
        : i2 \in DOMAIN TableAt(m, ShvVmxEptGetVirtualFromPfn(TableAt(m,
                    ShvVmxEptGetVirtualFromPfn(m[root][i4].PFN))[i3].PFN)) }
        : i3 \in DOMAIN TableAt(m, ShvVmxEptGetVirtualFromPfn(m[root][i4].PFN)) }
        : i4 \in DOMAIN m[root] }

PathOf(a) == <<PML4E(a), PDPTE(a), PDE(a), PTE(a)>>
\* The frame an identity leaf at a path maps.
FrameOfPath(p) ==
    [hi |-> p[1],
     mid |-> (p[2] * EntriesPerTable + p[3]) * EntriesPerTable + p[4]]
MappedFrames(m, root) == { FrameOfPath(l.path) : l \in Leaves(m, root) }
LeafOf(m, root, a) ==
    IF \E l \in Leaves(m, root) : l.path = PathOf(a)
    THEN (CHOOSE l \in Leaves(m, root) : l.path = PathOf(a)).pte
    ELSE ZeroEntry

HasRWX(e) == e.R = 1 /\ e.W = 1 /\ e.X = 1
Distinct(seq) == \A i, j \in 1..Len(seq) : i # j => seq[i] # seq[j]
Elements(seq) == { seq[i] : i \in 1..Len(seq) }
IsMiss(call) ==
    call.op = "handle_violation" /\ SHV_EPT_VIOLATION_ENTRY_MISS(call.ExitReason)

\* ------------------------------------------------------------ the claims
\* C1: after the build and any map_page calls, every non-leaf entry reached
\* from the root has R=W=X=1 and the PFN of an allocated table, and every
\* non-zero leaf has R=W=X=1, memory type writeback and the PFN address >> 12
\* of an address that was mapped through the indices of that leaf.
C1_WellFormedTree ==
    phase = "running" =>
        /\ \A d \in DirectoryEntries(mem, ShvVmxEptPML4) :
              LET e == mem[d[1]][d[2]]
                  child == ShvVmxEptGetVirtualFromPfn(e.PFN)
              IN  /\ HasRWX(e) /\ e.MT = 0 /\ e.P = 0
                  /\ child \in DOMAIN mem
                  /\ e.PFN = SHV_PHYS_TO_PFN(MmGetPhysicalAddress(child))
        /\ \A l \in Leaves(mem, ShvVmxEptPML4) :
              /\ HasRWX(l.pte) /\ l.pte.MT = WriteBack /\ l.pte.P = 0
              /\ \E a \in mapped : /\ PathOf(a) = l.path
                                   /\ l.pte.PFN = SHV_PHYS_TO_PFN(a)

\* A violation handler has created tables and a leaf beside those of the build.
C1_Witness ==
    /\ phase = "running"
    /\ IsMiss(last.call) /\ last.call.ret = STATUS_SUCCESS
    /\ Len(last.allocs) = 3
    /\ Cardinality(Leaves(mem, ShvVmxEptPML4)) >= 3

\* C2: between calls the structure reached from the PML4 is a strict tree:
\* no two parent entries hold the same child PFN and no table is reached at
\* two levels, so none is its own ancestor.
C2_StrictTree ==
    phase = "running" =>
        /\ \A d1, d2 \in DirectoryEntries(mem, ShvVmxEptPML4) :
              d1 # d2 => mem[d1[1]][d1[2]].PFN # mem[d2[1]][d2[2]].PFN
        /\ \A k1, k2 \in 1..4 :
              k1 # k2 => TablesAt(mem, ShvVmxEptPML4, k1)
                             \cap TablesAt(mem, ShvVmxEptPML4, k2) = {}

\* A tree with two PML4 entries, each with tables below it.
C2_Witness ==
    /\ phase = "running"
    /\ Cardinality(DOMAIN mem[ShvVmxEptPML4]) = 2
    /\ Cardinality(DirectoryEntries(mem, ShvVmxEptPML4)) >= 6

\* The frames a range of whole pages below 2^39 covers: NumberOfBytes / 4096
\* frames from the frame of BaseAddress on.
FramesOfRange(range) ==
    { [hi |-> 0, mid |-> range.BaseAddress.mid + k] :
        k \in 0..(range.NumberOfBytes.mid - 1) }
RECURSIVE FramesOfRanges(_, _)
FramesOfRanges(ranges, i) ==
    IF IsSentinel(ranges[i]) THEN {}
    ELSE FramesOfRange(ranges[i]) \cup FramesOfRanges(ranges, i + 1)

C4_Idempotent ==
    ( /\ IsMiss(last.call) /\ IsMiss(prev)
      /\ last.call.address = prev.address
      /\ prev.ret = STATUS_SUCCESS ) =>
        /\ last.call.ret = STATUS_SUCCESS
        /\ mem = last.pre.mem
        /\ last.allocs = <<>>
        /\ nAlloc = last.pre.nAlloc

\* The same address was mapped twice, the first call having built its tables.
C4_Witness ==
    /\ IsMiss(last.call) /\ IsMiss(prev)
    /\ last.call.address = prev.address
    /\ prev.ret = STATUS_SUCCESS
    /\ nAlloc >= 7
    /\ ~QuadPartIsZero(LeafOf(mem, ShvVmxEptPML4, last.call.address))

\* C5: cleanup() frees every allocated page exactly once: after it the pages
\* freed are as many as the pages allocated and none is outstanding.
C5_CleanupComplete ==
    last.call.op = "cleanup" =>
        /\ nFree = nAlloc
        /\ DOMAIN mem = {}
        /\ Distinct(last.freed)
        /\ Elements(last.freed) = DOMAIN last.pre.mem

\* A cleanup of a tree that the build and a violation handler made.
C5_Witness ==
    /\ last.call.op = "cleanup" /\ IsMiss(prev)
    /\ Len(last.freed) >= 7
    /\ nFree = nAlloc

\* C6: when an allocation fails during initialize(), the call returns
\* STATUS_HV_NO_RESOURCES, the tables allocated before the failure are freed,
\* none is outstanding and the PML4 pointer is null.
C6_FailedBuildUnwinds ==
    (last.call.op = "initialize" /\ last.nulls > 0) =>
        /\ last.call.ret = STATUS_HV_NO_RESOURCES
        /\ Elements(last.freed) = Elements(last.allocs)
        /\ Distinct(last.freed)
        /\ nAlloc = nFree
        /\ DOMAIN mem = {}
        /\ ShvVmxEptPML4 = NULL

\* A build that failed at its sixth allocation, after five tables.
C6_Witness ==
    /\ last.call.op = "initialize" /\ last.nulls = 1
    /\ Len(last.allocs) = 5
    /\ Len(last.freed) = 5

\* Bit b of a violation reason.
BitOf(vr, b) == (vr \div Pow2(b)) % 2
AnyOfBits3To5(vr) == \E b \in 3..5 : BitOf(vr, b) = 1
NewLeaves == Leaves(mem, ShvVmxEptPML4) \ Leaves(last.pre.mem, last.pre.pml4)
InveptCount == Cardinality({ k \in 1..Len(last.vmx) : last.vmx[k] = "INVEPT" })

\* C7: handle_violation for an unmapped page, with bits 3 to 5 of the
\* qualification zero, installs exactly one new leaf, the leaf of that page,
\* and then executes INVEPT exactly once, as the last VMX instruction before
\* it returns.
C7_InveptAfterMap ==
    ( /\ last.call.op = "handle_violation"
      /\ ~AnyOfBits3To5(last.call.ExitReason)
      /\ QuadPartIsZero(LeafOf(last.pre.mem, last.pre.pml4,
                               last.call.address)) ) =>
        /\ Cardinality(NewLeaves) = 1
        /\ \A l \in NewLeaves : l.path = PathOf(last.call.address)
        /\ InveptCount = 1
        /\ last.vmx[Len(last.vmx)] = "INVEPT"

\* The steps of a handler between the entry of the walk at level 4 and its
\* return.
WalkSteps ==
    { "walk", "alloc", "zero", "dirR", "dirW", "dirX", "dirPFN",
      "leafR", "leafW", "leafX", "leafMT", "leafPFN" }

\* C8: no two processors are inside a walk of the shared tree at once.
C8_MutualExclusion ==
    \A c1, c2 \in Cpus :
        c1 # c2 => ~(cpu[c1].pc \in WalkSteps /\ cpu[c2].pc \in WalkSteps)

IsReadAt7000 ==
    /\ last.call.op = "handle_violation"
    /\ last.call.address = U64(0, 7, 0)
    /\ last.call.ExitReason = 1

\* C10 as stated: handle_violation(gpa=0x7000, qual=0x01) is rejected as
\* fatal; no PTE is installed for 0x7000 and no table is allocated.
C10_ReadRejected ==
    IsReadAt7000 =>
        /\ last.assertion = UnknownReason
        /\ mem = last.pre.mem
        /\ last.allocs = <<>>

\* C10: handle_violation(gpa=0x7000, qual=0x01) has bits 3 to 5 clear and is
\* handled as a missing entry: the assertion of an unknown reason is not
\* reached, the walk runs, and when it succeeds a leaf that was zero holds
\* the identity mapping of 0x7000 and a leaf that was set is left as it was;
\* the call fails only when an allocation does.
C10_ReadHandledAsMiss ==
    IsReadAt7000 =>
        /\ last.assertion # UnknownReason
        /\ last.call.ret \in {STATUS_SUCCESS, STATUS_HV_NO_RESOURCES}
        /\ last.call.ret = STATUS_SUCCESS =>
              /\ last.assertion = NoAssertion
              /\ LeafOf(mem, ShvVmxEptPML4, U64(0, 7, 0))
                     = IF QuadPartIsZero(LeafOf(last.pre.mem, last.pre.pml4,
                                                U64(0, 7, 0)))
                       THEN [ZeroEntry EXCEPT
                               !.R = 1, !.W = 1, !.X = 1, !.MT = 6,
                               !.PFN = [hi |-> 0, mid |-> 7]]
                       ELSE LeafOf(last.pre.mem, last.pre.pml4, U64(0, 7, 0))
        /\ last.call.ret = STATUS_HV_NO_RESOURCES =>
              /\ last.assertion = AllocationFailed
              /\ last.nulls = 1

\* The read at 0x7000 on the tree of the APIC page alone: two tables are
\* allocated and the leaf is installed.
C10_Witness ==
    /\ IsReadAt7000
    /\ last.call.ret = STATUS_SUCCESS
    /\ Len(last.allocs) = 2
    /\ ~QuadPartIsZero(LeafOf(mem, ShvVmxEptPML4, U64(0, 7, 0)))
    /\ QuadPartIsZero(LeafOf(last.pre.mem, last.pre.pml4, U64(0, 7, 0)))

HasAll(h) ==
    /\ h.vendor = GenuineIntel
    /\ CPUID_VMX_BIT \subseteq h.features
    /\ CPUID_HYPERVISOR_BIT \cap h.features = {}
    /\ IA32_FEATURE_CONTROL_MSR_LOCK \subseteq h.featureControl
    /\ IA32_FEATURE_CONTROL_MSR_ENABLE_VMXON_OUTSIDE_SMX
           \subseteq h.featureControl
    /\ EptAllowed \subseteq h.procbasedCtls2

\* C11: the probes report support exactly when the vendor is GenuineIntel,
\* the VMX bit is set, the hypervisor-present bit is clear, the feature
\* control is locked with VMXON outside SMX enabled, and EPT is allowed.
C11_ProbeIffAll ==
    probe.result # "none" => (probe.result = "TRUE" <=> HasAll(hw))

\* C12: under a hypervisor (CPUID.1:ECX bit 31 set) the probes never report
\* support.
C12_NoNesting ==
    (probe.result # "none" /\ CPUID_HYPERVISOR_BIT \subseteq hw.features) =>
        probe.result = "FALSE"

\* C13: from a machine the probes accept, clearing only the EPT allowed-one
\* bit, or only the lock bit of the feature control, makes them refuse.
C13_ClearedBitRefused ==
    (probe.before = "TRUE" /\ probe.result # "none") =>
        /\ probe.result = "FALSE"
        /\ probe.cleared = "ept" => ~ShvVmxEptProbe(hw) /\ ShvVmxProbe(hw)
        /\ probe.cleared = "lock" => ~ShvVmxProbe(hw) /\ ShvVmxEptProbe(hw)

\* The lock bit of an accepted Intel machine was cleared and the probes ran.
C13_Witness ==
    /\ probe.before = "TRUE" /\ probe.cleared = "lock"
    /\ probe.result = "FALSE"
    /\ hw.vendor = GenuineIntel
    /\ EptAllowed \subseteq hw.procbasedCtls2

\* The two properties of a legal control value: no bit outside the
\* allowed-one bits (the high dword) is set, and every required-one bit (the
\* low dword) is set.
NoForbiddenBit == adjust.r \ adjust.ControlValue.HighPart = {}
AllRequiredBits == adjust.r \cup adjust.ControlValue.LowPart = adjust.r

\* C14 as stated: for every desired value and every control MSR value the
\* result has no forbidden bit and has every required bit.
C14_LegalForEveryMsr == adjust.done => (NoForbiddenBit /\ AllRequiredBits)

\* C14: for every desired value and every control MSR value whose
\* required-one bits are all allowed-one bits, the result has no forbidden
\* bit and has every required bit; for every MSR value it has every
\* required bit.
C14_LegalForConsistentMsr ==
    adjust.done =>
        /\ AllRequiredBits
        /\ adjust.ControlValue.LowPart \subseteq adjust.ControlValue.HighPart
               => NoForbiddenBit

\* A consistent MSR with a required bit the caller did not ask for and a
\* desired bit the hardware forbids.
C14_Witness ==
    /\ adjust.done
    /\ adjust.ControlValue.LowPart \subseteq adjust.ControlValue.HighPart
    /\ adjust.ControlValue.LowPart \ adjust.DesiredValue # {}
    /\ adjust.DesiredValue \ adjust.ControlValue.HighPart # {}
    /\ adjust.r # adjust.DesiredValue

\* What a processor executed.
Did(c, op, arg) == \E k \in 1..Len(lp[c].log) : lp[c].log[k] = <<op, arg>>
DidBefore(c, k, op, arg) == \E j \in 1..(k - 1) : lp[c].log[j] = <<op, arg>>
LastOf(seq) == seq[Len(seq)]
IsPrefix(s, full) == Len(s) <= Len(full) /\ \A k \in 1..Len(s) : s[k] = full[k]

\* C15: on a processor whose flag was 0 and whose VMLAUNCH succeeded, the
\* statement after the capture is passed with the flag read as 0, then 1,
\* then 2 and never a fourth time; the context is captured once and restored
\* once, in the pass that reads 1 and after the flag became 2; the third
\* pass returns; and the flag of no processor ever decreases.
C15_ThreePasses ==
    /\ [](\A c \in Cpus :
            Did(c, "VMLAUNCH", "ok") =>
                /\ Len(lp[c].observed) >= 1
                /\ IsPrefix(lp[c].observed, <<0, 1, 2>>)
                /\ lp[c].captures = 1
                /\ lp[c].restores = IF Len(lp[c].observed) >= 2 THEN 1 ELSE 0
                /\ lp[c].restores = 1 => VpData[c].VmxEnabled = 2
                /\ lp[c].pc = IF Len(lp[c].observed) = 3 THEN "returned"
                              ELSE "check")
    /\ [][\A c \in Cpus : VpData'[c].VmxEnabled >= VpData[c].VmxEnabled]_vars

\* A processor that launched, went through its three passes and returned.
C15_Witness ==
    \E c \in Cpus :
        /\ Did(c, "VMLAUNCH", "ok")
        /\ lp[c].observed = <<0, 1, 2>>
        /\ lp[c].restores = 1
        /\ lp[c].pc = "returned"

\* C16: when ShvVpInitialize returns with the flag at 2, the registers are
\* those the first pass captured from the caller, the context frame still
\* holds them, and the guest RSP, RIP and RFLAGS of the VMCS are the
\* captured ones.
C16_RegistersAsCaptured ==
    \A c \in Cpus :
        /\ lp[c].captures >= 1 => VpData[c].ContextFrame = lp[c].captured
        /\ (lp[c].pc = "returned" /\ VpData[c].VmxEnabled = 2) =>
              /\ lp[c].captured = [CallerRegisters EXCEPT !.Rip = AfterCapture]
              /\ lp[c].regs = lp[c].captured
              /\ lp[c].guest = GuestState(lp[c].captured.Rsp,
                                          lp[c].captured.Rip,
                                          lp[c].captured.EFlags)

\* A processor that runs as guest and has returned to its caller with the
\* caller's general registers, after the launch code had clobbered them.
C16_Witness ==
    \E c \in Cpus :
        /\ lp[c].pc = "returned" /\ VpData[c].VmxEnabled = 2
        /\ lp[c].vmx = "guest"
        /\ lp[c].regs.Gpr = "caller"
        /\ lp[c].regs.Rsp = "dpc stack"

\* C17: a processor on which a step of the entry into root mode failed is
\* outside VMX operation when the launch routine has returned.
C17_FailedEntryLeavesVmx ==
    \A c \in Cpus :
        ( /\ lp[c].pc = "returned"
          /\ ~Did(c, "VMLAUNCH", "ok") /\ ~Did(c, "VMLAUNCH", "failed") ) =>
            /\ lp[c].vmx = "off"
            /\ Did(c, "VMXON", "ok") => LastOf(lp[c].log) = <<"VMXOFF", "ok">>

\* C18: a processor whose VMLAUNCH failed has executed VMXOFF as its last
\* VMX instruction and has returned outside VMX operation, and the step in
\* which its launch fails changes nothing of any other processor nor of the
\* EPT engine.
C18_FailedLaunchBails ==
    /\ [](\A c \in Cpus :
            Did(c, "VMLAUNCH", "failed") =>
                /\ LastOf(lp[c].log) = <<"VMXOFF", "ok">>
                /\ lp[c].vmx = "off"
                /\ lp[c].pc = "returned")
    /\ [][\A c \in Cpus :
            (lp'[c].log # lp[c].log
                 /\ LastOf(lp'[c].log) \in {<<"VMXOFF", "ok">>,
                                            <<"VMLAUNCH", "failed">>}) =>
                /\ \A d \in Cpus \ {c} :
                      VpData'[d] = VpData[d] /\ lp'[d] = lp[d]
                /\ UNCHANGED eptVars]_vars

\* One processor's launch failed while another runs as guest.
C18_Witness ==
    \E c, d \in Cpus :
        /\ Did(c, "VMLAUNCH", "failed") /\ lp[c].pc = "returned"
        /\ lp[c].vmx = "off"
        /\ Did(d, "VMLAUNCH", "ok") /\ lp[d].vmx = "guest"
        /\ VpData[d].VmxEnabled = 2

\* C19: when the code after __vmx_vmlaunch is reached, the flag of that
\* processor is not 1: only a processor whose VMLAUNCH entered the guest
\* holds the value 1.
C19_FlagNotSetAfterFailure ==
    \A c \in Cpus :
        /\ Did(c, "VMLAUNCH", "failed") => VpData[c].VmxEnabled # 1
        /\ VpData[c].VmxEnabled = 1 => Did(c, "VMLAUNCH", "ok")

\* C20: on each processor every VMX instruction follows a successful VMXON,
\* VMPTRLD follows a successful VMCLEAR, every VMWRITE follows a successful
\* VMPTRLD, and VMLAUNCH follows the VMWRITE of every field of the VMCS.
C20_InstructionOrder ==
    \A c \in Cpus : \A k \in 1..Len(lp[c].log) :
        LET op == lp[c].log[k][1]
        IN  /\ op # "VMXON" => DidBefore(c, k, "VMXON", "ok")
            /\ op = "VMPTRLD" => DidBefore(c, k, "VMCLEAR", "ok")
            /\ op = "VMWRITE" => DidBefore(c, k, "VMPTRLD", "ok")
            /\ op = "VMLAUNCH" =>
                  \A f \in 1..Len(VmcsFields) :
                      DidBefore(c, k, "VMWRITE", VmcsFields[f])
            /\ op \in {"VMCLEAR", "VMPTRLD", "VMWRITE"} =>
                  ~DidBefore(c, k, "VMLAUNCH", "ok")
                      /\ ~DidBefore(c, k, "VMLAUNCH", "failed")

\* A processor that executed VMXON, VMCLEAR, VMPTRLD, the write of every
\* field and VMLAUNCH.
C20_Witness ==
    \E c \in Cpus :
        /\ Did(c, "VMLAUNCH", "ok")
        /\ Len(lp[c].log) = 3 + Len(VmcsFields) + 1
        /\ lp[c].log[4] = <<"VMWRITE", "VMCS_LINK_POINTER">>
        /\ lp[c].log[3 + Len(VmcsFields)] = <<"VMWRITE", "HOST_RIP">>

\* The handler the DPC of a processor called has returned.
HandlerFinished(c) ==
    IF lp[c].Context = "load"
    THEN lp[c].pc = "returned" /\ Len(lp[c].observed) >= 1
    ELSE lp[c].teardowns = 1

\* C21: in a dispatch of ShvVpCallbackDpc a processor is at the barrier only
\* after its own handler, ShvVpInitialize or ShvVpUninitialize, returned; no
\* processor signals completion before every processor is at the barrier or
\* past it; and every processor whose DPC is queued eventually signals
\* completion.
C21_Barrier ==
    /\ [](\A c \in Cpus :
            /\ lp[c].dpc \in {"barrier", "done"} => HandlerFinished(c)
            /\ lp[c].dpc = "done" =>
                  \A d \in Cpus : /\ lp[d].dpc \in {"barrier", "done"}
                                  /\ HandlerFinished(d))
    /\ \A c \in Cpus : (lp[c].dpc = "queued") ~> (lp[c].dpc = "done")

\* A processor waits at the barrier while another is still inside the
\* launch code of its handler.
C21_Witness ==
    \E c, d \in Cpus :
        /\ lp[c].dpc = "barrier"
        /\ lp[d].dpc = "running" /\ lp[d].pc = "vmlaunch"

\* C22: the handler on processor i works on slot i of the per-VP array: the
\* pointer its DPC passes on and the SHV_VP_DATA lookup are that slot, and a
\* step that changes slot i is a step of processor i alone.
C22_SlotOwnership ==
    /\ [](\A c \in Cpus :
            lp[c].dpc \in {"running", "barrier", "done"} =>
                lp[c].Data = c /\ SHV_VP_DATA(c) = lp[c].Data)
    /\ [][\A i \in Cpus :
            VpData'[i] # VpData[i] =>
                /\ lp'[i] # lp[i]
                /\ \A d \in Cpus \ {i} : lp'[d] = lp[d]]_vars

\* Two processors have each filled their own slot, one launched and one
\* whose launch failed.
C22_Witness ==
    \E c, d \in Cpus :
        /\ c # d
        /\ VpData[c].VmxEnabled = 2 /\ lp[c].Data = c
        /\ VpData[d].VmxEnabled = 1 /\ lp[d].Data = d
        /\ VpData[c].ContextFrame # ZeroContext
        /\ VpData[d].ContextFrame # ZeroContext

\* C23: the EPTP is zero until initialize() succeeds, which stores memory
\* type 6, page-walk length 3, access/dirty enable 0 and the frame of the
\* PML4; a failed initialize() leaves it zero, and no call after initialize()
\* changes it.
C23_EptpWrittenOnce ==
    /\ [](/\ phase \in {"initial", "failed"} => ShvVmxEptEptp = ZeroEptp
          /\ phase \in {"running", "unloaded"} =>
                /\ ShvVmxEptEptp.MT = 6
                /\ ShvVmxEptEptp.PW = 3
                /\ ShvVmxEptEptp.ADE = 0
                /\ ShvVmxEptEptp.PFN # ZeroPfn
          /\ phase = "running" =>
                ShvVmxEptEptp.PFN
                    = SHV_PHYS_TO_PFN(MmGetPhysicalAddress(ShvVmxEptPML4)))
    /\ [][phase # "initial" => ShvVmxEptEptp' = ShvVmxEptEptp]_vars

\* The EPTP of a driver that mapped a page in a violation handler and was
\* then unloaded.
C23_Witness ==
    /\ last.call.op = "cleanup" /\ IsMiss(prev)
    /\ prev.ret = STATUS_SUCCESS
    /\ phase = "unloaded"
    /\ ShvVmxEptEptp.PFN = [hi |-> 0, mid |-> PoolBaseFrame + 1]

\* Bit b of a 64-bit value.
BitAt(a, b) ==
    IF b < PAGE_SHIFT THEN BitOf(a.off, b)
    ELSE IF b < PAGE_SHIFT + 3 * IndexBits THEN BitOf(a.mid, b - PAGE_SHIFT)
    ELSE BitOf(a.hi, b - PAGE_SHIFT - 3 * IndexBits)
\* The field of an address holds bits lo to lo + n - 1 of it.
HoldsBits(field, a, lo, n) ==
    /\ field \in 0..(Pow2(n) - 1)
    /\ \A k \in 0..(n - 1) : BitOf(field, k) = BitAt(a, lo + k)

\* C24: the fields of an address are its bits 47:39, 38:30, 29:21, 20:12
\* and 11:0; the walk takes the first four as the indices of levels 4, 3,
\* 2 and 1; and the address put together from the five fields is the
\* address itself when it is below 2^48, and differs from it above.
C24_RoundTrip ==
    eptAddress.done =>
        LET a == eptAddress.QuadPart
            f == eptAddress.fields
        IN  /\ HoldsBits(f.PML4E, a, 39, 9)
            /\ HoldsBits(f.PDPTE, a, 30, 9)
            /\ HoldsBits(f.PDE, a, 21, 9)
            /\ HoldsBits(f.PTE, a, 12, 9)
            /\ HoldsBits(f.HPA, a, 0, 12)
            /\ eptAddress.index[4] = f.PML4E
            /\ eptAddress.index[3] = f.PDPTE
            /\ eptAddress.index[2] = f.PDE
            /\ eptAddress.index[1] = f.PTE
            /\ \A b \in 0..47 : BitAt(eptAddress.reassembled, b) = BitAt(a, b)
            /\ (eptAddress.reassembled = a) = (f.reserved0 = 0)

\* An address below 2^48 with a different value in each field was taken
\* apart and put together.
C24_Witness ==
    /\ eptAddress.done
    /\ eptAddress.QuadPart = U64(1, (170 * 512 + 0) * 512 + 511, 291)
    /\ eptAddress.reassembled = eptAddress.QuadPart
    /\ eptAddress.index = [level \in 1..4 |->
                              CASE level = 4 -> 1 [] level = 3 -> 170
                                [] level = 2 -> 0 [] level = 1 -> 511]

\* C25: after map_page(a) has returned success for an address a below
\* 2^48, the entries selected by the four indices of a lead from the PML4 to
\* a non-zero leaf whose PFN is a >> 12.
C25_MapPageTranslates ==
    ( /\ IsMiss(last.call)
      /\ last.call.ret = STATUS_SUCCESS
      /\ VMX_EPT_ADDRESS(last.call.address).reserved0 = 0 ) =>
        /\ ~QuadPartIsZero(LeafOf(mem, ShvVmxEptPML4, last.call.address))
        /\ LeafOf(mem, ShvVmxEptPML4, last.call.address).PFN
               = SHV_PHYS_TO_PFN(last.call.address)

\* The tables reached from the root through the entries of the tree.
Reachable(m, root) ==
    TablesAt(m, root, 4) \cup TablesAt(m, root, 3)
        \cup TablesAt(m, root, 2) \cup TablesAt(m, root, 1)
NoHandlerRuns == \A c \in Cpus : cpu[c].pc = "idle"

\* C26: when the violation handlers for 0x7000 and 0x8000, which need the
\* same missing page directory and page table, have returned success, every
\* page a handler mapped has its identity leaf reachable from the root, and
\* every allocated table is in the tree: none was orphaned by a lost update
\* of a parent entry.
C26_NoLostUpdate ==
    ( /\ NoHandlerRuns
      /\ {U64(0, 7, 0), U64(0, 8, 0)} \subseteq mapped ) =>
        /\ \A a \in mapped :
              /\ ~QuadPartIsZero(LeafOf(mem, ShvVmxEptPML4, a))
              /\ LeafOf(mem, ShvVmxEptPML4, a).PFN = SHV_PHYS_TO_PFN(a)
        /\ DOMAIN mem \subseteq Reachable(mem, ShvVmxEptPML4)
        /\ Cardinality(DOMAIN mem) = nAlloc

\* C27: in every state, between the field writes of a walk in progress as
\* well, each non-leaf entry reached from the root has R=W=X=1 and the PFN
\* of its child table, and each non-zero leaf is complete: R=W=X=1, memory
\* type writeback and the PFN of its page.
C27_NoPartialEntry ==
    /\ \A d \in DirectoryEntries(mem, ShvVmxEptPML4) :
          /\ HasRWX(mem[d[1]][d[2]])
          /\ ShvVmxEptGetVirtualFromPfn(mem[d[1]][d[2]].PFN) \in DOMAIN mem
    /\ \A l \in Leaves(mem, ShvVmxEptPML4) :
          /\ HasRWX(l.pte) /\ l.pte.MT = WriteBack
          /\ l.pte.PFN = FrameOfPath(l.path)

\* C28: a table is zero when it becomes reachable: a handler that writes
\* the parent entry of its new table holds a table of 512 zero entries, a
\* table that a step makes reachable from the root is zero in the state the
\* step leaves, and no table of the tree, the PML4 included, holds what the
\* allocator left in its page.
C28_ZeroBeforeLinked ==
    /\ [](/\ \A c \in Cpus :
                cpu[c].pc \in {"dirR", "dirW", "dirX", "dirPFN"} =>
                    /\ cpu[c].next \in DOMAIN mem
                    /\ mem[cpu[c].next] = ZeroTable
          /\ \A t \in Reachable(mem, ShvVmxEptPML4) \cap DOMAIN mem :
                \A i \in DOMAIN mem[t] : mem[t][i] # StaleEntry)
    /\ [][\A t \in (Reachable(mem', ShvVmxEptPML4')
                       \ Reachable(mem, ShvVmxEptPML4)) \cap DOMAIN mem' :
              mem'[t] = ZeroTable]_vars

\* A handler has just written the PFN of its new, zeroed table into the
\* parent entry while another handler holds a page it has not zeroed yet.
C28_Witness ==
    \E c, d \in Cpus :
        /\ cpu[c].pc = "walk" /\ cpu[c].table = cpu[c].next
        /\ cpu[c].next \in Reachable(mem, ShvVmxEptPML4) \cap DOMAIN mem
        /\ mem[cpu[c].next] = ZeroTable
        /\ cpu[d].pc = "zero" /\ mem[cpu[d].next] = StaleTable

\* C29: a handler whose walk met a failed allocation does not return
\* normally, and a handler that returned after an entry miss has left a
\* non-zero leaf for the page of the faulting address.
C29_FailureNotSurvived ==
    IsMiss(last.call) =>
        /\ last.nulls > 0 => halted
        /\ ~halted =>
              ~QuadPartIsZero(LeafOf(mem, ShvVmxEptPML4, last.call.address))

\* The list of the scenario as MmGetPhysicalMemoryRanges returns it, each
\* pair a BaseAddress and a NumberOfBytes, and the list of the ranges from
\* 0x1000 to 0x2000 and from 0x4000 to 0x5000.
ScenarioPairs ==
    <<Range(U64(0, 1, 0), U64(0, 2, 0)), Range(U64(0, 4, 0), U64(0, 5, 0)),
      Sentinel>>
ScenarioPages ==
    <<Range(U64(0, 1, 0), U64(0, 1, 0)), Range(U64(0, 4, 0), U64(0, 1, 0)),
      Sentinel>>
Built(ranges) ==
    /\ last.call.op = "initialize" /\ last.call.ret = STATUS_SUCCESS
    /\ MmPhysicalMemoryRanges = ranges
\* The indices of the non-zero entries of the page table reached through
\* PML4[0], PDPT[0] and PD[0].
FirstTableIndexes ==
    { l.path[4] : l \in { k \in Leaves(mem, ShvVmxEptPML4) :
                            k.path[1] = 0 /\ k.path[2] = 0 /\ k.path[3] = 0 } }
ApicPath == PathOf(ApicBase(DefaultApicMsr))

\* C30 as stated: with the range list [(0x1000, 0x2000), (0x4000, 0x5000)]
\* initialize() installs two leaves for the ranges and one for the APIC
\* page, and the first page table is non-zero exactly at indices 1 and 4.
C30_TwoLeavesForPairs ==
    Built(ScenarioPairs) =>
        /\ Cardinality(Leaves(mem, ShvVmxEptPML4)) = 2 + 1
        /\ FirstTableIndexes = {1, 4}

\* C30: with a range of 0x1000 bytes at 0x1000 and one at 0x4000,
\* initialize() installs two leaves for the ranges and one for the APIC
\* page, and the first page table is non-zero exactly at indices 1 and 4;
\* with BaseAddress 0x1000, NumberOfBytes 0x2000 and BaseAddress 0x4000,
\* NumberOfBytes 0x5000 it installs seven leaves, at indices 1, 2 and 4 to
\* 8, and the leaf of the APIC page.
C30_TwoLeavesForPages ==
    /\ Built(ScenarioPages) =>
          /\ Cardinality(Leaves(mem, ShvVmxEptPML4)) = 2 + 1
          /\ FirstTableIndexes = {1, 4}
          /\ \E l \in Leaves(mem, ShvVmxEptPML4) : l.path = ApicPath
    /\ Built(ScenarioPairs) =>
          /\ Cardinality(Leaves(mem, ShvVmxEptPML4)) = 7 + 1
          /\ FirstTableIndexes = {1, 2} \cup 4..8
          /\ \E l \in Leaves(mem, ShvVmxEptPML4) : l.path = ApicPath

\* The build over the one-page ranges has returned success.
C30_Witness ==
    /\ Built(ScenarioPages)
    /\ Cardinality(DOMAIN mem) = 4 + 2
    /\ FirstTableIndexes = {1, 4}

\* C31: cleanup() called with a null PML4 pointer frees nothing and changes
\* nothing; after every cleanup() the pointer is null; and a cleanup() frees
\* no page that an earlier call has freed, so the cleanup() after another
\* cleanup(), or after an initialize() that unwound its failed build, frees
\* no page.
C31_CleanupIdempotent ==
    last.call.op = "cleanup" =>
        /\ ShvVmxEptPML4 = NULL
        /\ last.pre.pml4 = NULL =>
              /\ last.freed = <<>>
              /\ mem = last.pre.mem
              /\ nFree = last.pre.nFree
              /\ nAlloc = last.pre.nAlloc
              /\ ShvVmxEptEptp = last.pre.eptp
        /\ Elements(last.freed) \subseteq DOMAIN last.pre.mem
        /\ (prev.op = "cleanup" \/ (prev.op = "initialize"
                                    /\ prev.ret # STATUS_SUCCESS)) =>
              /\ last.pre.pml4 = NULL
              /\ last.freed = <<>>

\* The second of two cleanups in a row, the first of which freed a tree.
C31_Witness ==
    /\ last.call.op = "cleanup" /\ prev.op = "cleanup"
    /\ last.pre.pml4 = NULL
    /\ last.pre.nFree >= 6
    /\ last.freed = <<>>

\* The tables of the tree before the last call whose entries point to
\* tables: the PML4, the PDPTs and the PDs.
DirectoryTables ==
    (TablesAt(last.pre.mem, last.pre.pml4, 4)
        \cup TablesAt(last.pre.mem, last.pre.pml4, 3)
        \cup TablesAt(last.pre.mem, last.pre.pml4, 2)) \cap DOMAIN last.pre.mem
\* Step k of the last call frees a page.
IsFree(k) == last.steps[k][1] = "free"

\* C32: handle_violation and a successful initialize() free no page, and
\* when cleanup() frees a page no later step reads it or frees it again;
\* the PML4, a PDPT or a PD is freed only after each of its entries was
\* examined and after every table its entries point to was freed.  The
\* entries of a page table point to no table and cleanup() frees a page
\* table without reading it.
C32_DepthFirst ==
    /\ (last.call.op = "handle_violation"
          \/ (last.call.op = "initialize"
                /\ last.call.ret = STATUS_SUCCESS)) =>
          /\ last.freed = <<>>
          /\ nFree = last.pre.nFree
          /\ DOMAIN last.pre.mem \subseteq DOMAIN mem
    /\ \A k \in 1..Len(last.steps) :
          IsFree(k) =>
              \A j \in (k + 1)..Len(last.steps) :
                  last.steps[j][2] # last.steps[k][2]
    /\ last.call.op = "cleanup" =>
          \A k \in 1..Len(last.steps) :
              (IsFree(k) /\ last.steps[k][2] \in DirectoryTables) =>
                  /\ \A i \in DOMAIN last.pre.mem[last.steps[k][2]] :
                        \E j \in 1..(k - 1) :
                            last.steps[j] = <<"read", last.steps[k][2], i>>
                  /\ \A t \in Children(last.pre.mem, {last.steps[k][2]}) :
                        \E j \in 1..(k - 1) :
                            last.steps[j] = <<"free", t, 0>>

\* A cleanup has walked and freed a tree of seven tables or more, two of
\* them under one directory.
C32_Witness ==
    /\ last.call.op = "cleanup"
    /\ Cardinality(DirectoryTables) >= 3
    /\ Len(last.freed) >= 7
    /\ \E t \in DirectoryTables :
          Cardinality(Children(last.pre.mem, {t})) >= 2
    /\ last.steps[Len(last.steps)] = <<"free", last.pre.pml4, 0>>

\* C33: as long as no processor was torn down, the flag of a processor is 2
\* only if a VMLAUNCH succeeded on it and it runs as guest, and a processor
\* on which no VMLAUNCH succeeded never took the branch that restores the
\* context, however many times ShvVpInitialize ran on it.
C33_ResumedOnlyAsGuest ==
    \A c \in Cpus :
        lp[c].teardowns = 0 =>
            /\ VpData[c].VmxEnabled = 2 =>
                  /\ Did(c, "VMLAUNCH", "ok")
                  /\ lp[c].vmx = "guest"
            /\ ~Did(c, "VMLAUNCH", "ok") => lp[c].restores = 0

\* The value the last step of that name wrote, and the place of the first.
ValueOf(op) ==
    narrow.log[CHOOSE k \in 1..Len(narrow.log) :
                   /\ narrow.log[k][1] = op
                   /\ \A j \in (k + 1)..Len(narrow.log) :
                         narrow.log[j][1] # op][2]
StepOf(op) ==
    CHOOSE k \in 1..Len(narrow.log) :
        /\ narrow.log[k][1] = op
        /\ \A j \in 1..(k - 1) : narrow.log[j][1] # op
\* The value has every must-be-one bit and is the captured value at the
\* bits that may be one and need not be.
FixedOnesSet(value, captured, fixed0, fixed1) ==
    /\ fixed0 \subseteq value
    /\ value \cap (fixed1 \ fixed0) = captured \cap (fixed1 \ fixed0)
\* Host, guest and the processor's own register received one value, and the
\* register was written before VMXON.
SameEverywhere(host, guest, own) ==
    /\ ValueOf(host) = ValueOf(guest)
    /\ ValueOf(host) = ValueOf(own)
    /\ StepOf(own) < StepOf("VMXON")
    /\ StepOf("VMXON") < StepOf(host)

\* C34 as stated: for every captured CR0 and CR4 and every pair of
\* fixed-bits MSRs, host and guest receive the captured value with every
\* must-be-one bit set and every must-be-zero bit cleared, the value that
\* was written to the register of the processor before VMXON.
C34_NarrowedForEveryPair ==
    narrow.pc = "setup" =>
        /\ SameEverywhere("HOST_CR0", "GUEST_CR0", "__writecr0")
        /\ SameEverywhere("HOST_CR4", "GUEST_CR4", "__writecr4")
        /\ FixedOnesSet(ValueOf("HOST_CR0"), narrow.captured.Cr0,
                        narrow.MsrData[6], narrow.MsrData[7])
        /\ FixedOnesSet(ValueOf("HOST_CR4"), narrow.captured.Cr4,
                        narrow.MsrData[8], narrow.MsrData[9])
        /\ ValueOf("HOST_CR0") \subseteq narrow.MsrData[7]
        /\ ValueOf("HOST_CR4") \subseteq narrow.MsrData[9]

\* C34: for every captured CR0 and CR4 and every pair of fixed-bits MSRs,
\* host and guest receive one value, the value that was written to the
\* register of the processor before VMXON; it has every must-be-one bit set
\* and is the captured value at the other bits that may be one; and when
\* every must-be-one bit is a bit that may be one, it has every must-be-zero
\* bit cleared.
C34_NarrowedForConsistentPair ==
    narrow.pc = "setup" =>
        /\ SameEverywhere("HOST_CR0", "GUEST_CR0", "__writecr0")
        /\ SameEverywhere("HOST_CR4", "GUEST_CR4", "__writecr4")
        /\ FixedOnesSet(ValueOf("HOST_CR0"), narrow.captured.Cr0,
                        narrow.MsrData[6], narrow.MsrData[7])
        /\ FixedOnesSet(ValueOf("HOST_CR4"), narrow.captured.Cr4,
                        narrow.MsrData[8], narrow.MsrData[9])
        /\ narrow.MsrData[6] \subseteq narrow.MsrData[7] =>
              ValueOf("HOST_CR0") \subseteq narrow.MsrData[7]
        /\ narrow.MsrData[8] \subseteq narrow.MsrData[9] =>
              ValueOf("HOST_CR4") \subseteq narrow.MsrData[9]

\* A VMCS set up on a processor whose captured CR0 had a must-be-zero bit
\* set and lacked a must-be-one bit, and whose captured CR4 lacked VMXE.
C34_Witness ==
    /\ narrow.pc = "setup"
    /\ narrow.MsrData[6] \subseteq narrow.MsrData[7]
    /\ narrow.MsrData[8] \subseteq narrow.MsrData[9]
    /\ narrow.captured.Cr0 \ narrow.MsrData[7] # {}
    /\ narrow.MsrData[6] \ narrow.captured.Cr0 # {}
    /\ 13 \in narrow.MsrData[8] \ narrow.captured.Cr4
    /\ ValueOf("GUEST_CR4") = narrow.captured.Cr4 \cup {13}

====
